---- MODULE Spec2Model ----
(***************************************************************************)
(* Verification model of the libcamera per-frame completion machinery:     *)
(*   - IPU3Frames (pipeline/ipu3/frames.h): parameter/statistics buffer    *)
(*     pools and the per-frame tracking records, with the completion       *)
(*     coordinator that drives them;                                       *)
(*   - VimcCameraData::bufferReady (pipeline/vimc/vimc.cpp);               *)
(*   - V4L2Device control transactions (v4l2_device.cpp).                  *)
(***************************************************************************)
EXTENDS Integers, Sequences, FiniteSets, TLC

(***************************************************************************)
(* Bounds                                                                  *)
(***************************************************************************)
MaxFrames == 3
MaxLiveFrames == 2
PoolDepth == 2
MaxTimestamp == 2
MaxCtrls == 3
AeMeanCells == 2
MaxFrameId == 3
MaxScene == 40
MaxBufferId == 2
MaxMaps == 3

(***************************************************************************)
(* Generic helpers                                                         *)
(***************************************************************************)
Range(s) == { s[i] : i \in 1..Len(s) }

Count(s, e) == Cardinality({ i \in 1..Len(s) : s[i] = e })

Restrict(f, S) == [ x \in S |-> f[x] ]

(***************************************************************************)
(* State                                                                   *)
(***************************************************************************)
VARIABLES
    \* ---- IPU3Frames (frames.h) and its coordinator
    availableParamBuffers_,  \* queue of free parameter buffer handles
    availableStatBuffers_,   \* queue of free statistics buffer handles
    frameInfo_,              \* frame id -> Info record of the in-flight frames
    nextId,                  \* next fresh frame id
    reqStatus,               \* request -> "Pending" | "Queued" | "Completed"
    rawDone,                 \* requests whose raw buffer has completed
    reqError,                \* requests flagged with an error status
    hwRaw,                   \* raw buffers currently queued to the capture device
    notified,                \* notification -> number of times it was issued
    delivered,               \* << frame id, kind >> of the sub-events handled for a known frame
    finalLog,                \* records of the finalizations performed
    issued,                  \* Info records handed out by create()
    seeded,                  \* handles passed to the last successful init()
    stop_,                   \* stream stop: "no" | "draining" | "released"
    lastResult,              \* outcome of the last tracker operation
    lastTry,                 \* flags seen and value returned by the last tryComplete()
    \* ---- Vimc pipeline (vimc.cpp)
    vimcQueued,              \* requests whose buffer is queued to the video device
    vimcStatus,              \* request -> "Pending" | "Queued" | "Completed"
    vimcMetadata,            \* request -> SensorTimestamp recorded in its metadata
    vimcNotified,            \* notifications issued to the camera, in order
    vimcDev,                 \* what start() holds: buffers, IPA, stream
    vimcCall,                \* the last start/stop/queueRequestDevice call
    \* ---- V4L2Device (v4l2_device.cpp) and its caller
    fd_,                     \* file descriptor, -1 when the device is not open
    fdEventNotifier_,        \* "null" | "disabled" | "enabled" | "deleted"
    frameStartEnabled_,
    subscribed,              \* the device sends frame-sync events to fd_
    controls_,               \* ControlInfoMap: id -> type and range, as listed
    controlInfo_,            \* id -> v4l2_query_ext_ctrl stored by listControls()
    ctrlList,                \* the caller's ControlList, in iteration order
    idList,                  \* the ids the caller wants to read, as a vector
    v4l2Call,                \* operation, arguments and return value of the last call
    v4l2Io,                  \* ioctls issued by the last call, in order
    \* ---- IPARkISP1 (rkisp1.cpp) and the scene in front of the sensor
    ipaState,                \* "constructed" | "configured" | "dead"
    ctrls_,                  \* ControlInfoMap kept by configure()
    autoExposure_,
    exposure_,
    minExposure_,
    maxExposure_,
    gain_,
    minGain_,
    maxGain_,
    ipaActions,              \* actions emitted by the last call, in order
    ipaCall,                 \* the last call and the state it found
    scene,                   \* brightness of the scene per unit of exposure, 0: none
    aeFrame,                 \* id of the next frame the scene's statistics are for
    buffers_,                \* ids of the FrameBuffers the engine keeps
    buffersMemory_,          \* id -> pointer to the buffer's memory
    mmaps                    \* the mappings mmap() made and munmap() has not undone

framesVars == << availableParamBuffers_, availableStatBuffers_, frameInfo_,
                 nextId, reqStatus, rawDone, reqError, hwRaw, notified,
                 delivered, finalLog, issued, seeded, stop_, lastResult,
                 lastTry >>

vimcDevVars == << vimcDev, vimcCall >>

vimcVars == << vimcQueued, vimcStatus, vimcMetadata, vimcNotified, vimcDevVars >>

eventVars == << frameStartEnabled_, subscribed >>

v4l2Vars == << fd_, fdEventNotifier_, eventVars, controls_, controlInfo_, ctrlList,
              idList, v4l2Call, v4l2Io >>

engineVars == << ipaState, ctrls_, autoExposure_, exposure_, minExposure_,
                 maxExposure_, gain_, minGain_, maxGain_, ipaActions, ipaCall >>

sceneVars == << scene, aeFrame >>

bufVars == << buffers_, buffersMemory_, mmaps >>

ipaVars == << engineVars, sceneVars, bufVars >>

vars == << framesVars, vimcVars, v4l2Vars, ipaVars >>

\* What an operation of one component leaves alone
notFrames == << vimcVars, v4l2Vars, ipaVars >>
notVimc == << framesVars, v4l2Vars, ipaVars >>
notV4l2 == << framesVars, vimcVars, ipaVars >>
notIpa == << framesVars, vimcVars, v4l2Vars >>

(***************************************************************************)
(* IPU3Frames: handles and records                                         *)
(***************************************************************************)
Requests == 1..MaxFrames

\* Requests admitted in the liveness specification
LiveRequests == 1..MaxLiveFrames

ParamBuf(i) == << "param", i >>
StatBuf(i) == << "stat", i >>
RawBuf(r) == << "raw", r >>

ParamHandles == { ParamBuf(i) : i \in 1..PoolDepth }
StatHandles == { StatBuf(i) : i \in 1..PoolDepth }

\* Camera notifications
BufferCompleted(r, b) == << "buffer", r, b >>
RequestCompleted(r) == << "request", r >>

Notifications ==
    { BufferCompleted(r, RawBuf(r)) : r \in Requests } \cup
    { RequestCompleted(r) : r \in Requests }

Notify(notes, n) == [ notes EXCEPT ![n] = @ + 1 ]

\* Operation and outcome of the last call or handler
Outcome(op, result) == [ op |-> op, result |-> result ]

NoInfo == [ id |-> 0 ]

NoTry == [ id |-> 0 ]

\* struct IPU3Frames::Info
Info(id, request, paramBuffer, statBuffer) ==
    [ id |-> id, request |-> request, rawBuffer |-> RawBuf(request),
      paramBuffer |-> paramBuffer, statBuffer |-> statBuffer,
      paramDequeued |-> FALSE, metadataProcessed |-> FALSE ]

\* Info *find(unsigned int id)
findById(infos, id) ==
    IF id \in DOMAIN infos THEN infos[id] ELSE NoInfo

\* Info *find(FrameBuffer *buffer)
findByBuffer(infos, buffer) ==
    LET hits == { i \in DOMAIN infos :
                    \/ infos[i].rawBuffer = buffer
                    \/ infos[i].paramBuffer = buffer
                    \/ infos[i].statBuffer = buffer }
    IN IF hits = {} THEN NoInfo ELSE infos[CHOOSE i \in hits : TRUE]

\* tryComplete() that forgets the parameter-buffer condition
tryComplete_noParam(info, rawCompleted) ==
    rawCompleted /\ info.metadataProcessed

\* tryComplete() that forgets the metadata condition
tryComplete_noMeta(info, rawCompleted) ==
    rawCompleted /\ info.paramDequeued

\* bool tryComplete(Info *info): the three conditions, tested one after the other
tryComplete(info, rawCompleted) ==
    IF ~rawCompleted THEN FALSE
    ELSE IF ~info.metadataProcessed THEN FALSE
    ELSE IF ~info.paramDequeued THEN FALSE
    ELSE TRUE

TryRecord(info, rawCompleted) ==
    [ id |-> info.id, raw |-> rawCompleted, param |-> info.paramDequeued,
      meta |-> info.metadataProcessed, ret |-> tryComplete(info, rawCompleted) ]

\* A stop that lets frames be created
stopRejects_never(stop) == stop = "never"

\* create(): refused from the start of a stream stop until the next init()
stopRejects(stop) == stop # "no"

\* create(): ResourceExhausted when either pool is empty
createFails(params, stats) == params = << >> \/ stats = << >>

\* remove(): both buffers go back to the tail of their pools, the record is erased
poolAfterRemove(pool, buffer) == Append(pool, buffer)

\* remove() that leaves the record registered
infosAfterRemove_keep(infos, id) == infos

infosAfterRemove(infos, id) == Restrict(infos, DOMAIN infos \ {id})

(***************************************************************************)
(* Initial state: every object as its constructor leaves it                *)
(***************************************************************************)
FramesInit ==
    /\ availableParamBuffers_ = << >>
    /\ availableStatBuffers_ = << >>
    /\ frameInfo_ = << >>
    /\ nextId = 1
    /\ reqStatus = [ r \in Requests |-> "Pending" ]
    /\ rawDone = {}
    /\ reqError = {}
    /\ hwRaw = {}
    /\ notified = [ n \in Notifications |-> 0 ]
    /\ delivered = {}
    /\ finalLog = {}
    /\ issued = {}
    /\ seeded = << {}, {} >>
    /\ stop_ = "no"
    /\ lastResult = Outcome("none", "None")
    /\ lastTry = NoTry

NoCall == [ op |-> "none" ]

\* V4L2Device::V4L2Device(): fd_(-1), fdEventNotifier_(nullptr), no controls
V4L2Init ==
    /\ fd_ = -1
    /\ fdEventNotifier_ = "null"
    /\ frameStartEnabled_ = FALSE
    /\ subscribed = FALSE
    /\ controls_ = << >>
    /\ controlInfo_ = << >>
    /\ ctrlList = << >>
    /\ idList = << >>
    /\ v4l2Call = NoCall
    /\ v4l2Io = << >>

VimcInit ==
    /\ vimcQueued = {}
    /\ vimcStatus = [ r \in Requests |-> "Pending" ]
    /\ vimcMetadata = [ r \in Requests |-> 0 ]
    /\ vimcNotified = << >>
    /\ vimcDev = [ imported |-> FALSE, ipaRunning |-> FALSE,
                   streaming |-> FALSE ]
    /\ vimcCall = [ op |-> "none" ]

\* IPARkISP1 has no constructor: the sensor members hold indeterminate values
\* (shown as 0) that nothing reads before configure() has set them
IpaInit ==
    /\ ipaState = "constructed"
    /\ ctrls_ = << >>
    /\ autoExposure_ = FALSE
    /\ exposure_ = 0
    /\ minExposure_ = 0
    /\ maxExposure_ = 0
    /\ gain_ = 0
    /\ minGain_ = 0
    /\ maxGain_ = 0
    /\ ipaActions = << >>
    /\ ipaCall = NoCall
    /\ scene = 0
    /\ aeFrame = 0
    /\ buffers_ = {}
    /\ buffersMemory_ = << >>
    /\ mmaps = {}

Init == FramesInit /\ VimcInit /\ V4L2Init /\ IpaInit

(***************************************************************************)
(* IPU3Frames operations                                                   *)
(***************************************************************************)
\* init(paramBuffers, statBuffers): seed both pools; refused while frames are in flight
Initialize(np, ns) ==
    /\ IF DOMAIN frameInfo_ # {}
       THEN /\ lastResult' = Outcome("init", "ConfigurationError")
            /\ UNCHANGED << availableParamBuffers_, availableStatBuffers_, seeded, stop_ >>
       ELSE /\ availableParamBuffers_' = [ i \in 1..np |-> ParamBuf(i) ]
            /\ availableStatBuffers_' = [ i \in 1..ns |-> StatBuf(i) ]
            /\ seeded' = << { ParamBuf(i) : i \in 1..np }, { StatBuf(i) : i \in 1..ns } >>
            /\ stop_' = "no"
            /\ lastResult' = Outcome("init", "Ok")
    /\ UNCHANGED << frameInfo_, nextId, reqStatus, rawDone, reqError, hwRaw,
                    notified, delivered, finalLog, issued, lastTry >>
    /\ UNCHANGED notFrames

\* create() that pops the parameter pool before it looks at the statistics pool
CreateFrame_leak(r) ==
    /\ reqStatus[r] = "Pending"
    /\ \A q \in Requests : q < r => reqStatus[q] # "Pending"
    /\ createFails(availableParamBuffers_, availableStatBuffers_)
    /\ lastResult' = Outcome("create", "ResourceExhausted")
    /\ availableParamBuffers_' =
           IF availableParamBuffers_ = << >> THEN << >>
           ELSE Tail(availableParamBuffers_)
    /\ UNCHANGED << availableStatBuffers_, frameInfo_, nextId, reqStatus,
                    hwRaw, issued, rawDone, reqError, notified, delivered,
                    finalLog, seeded, stop_, lastTry >>
    /\ UNCHANGED notFrames

\* create(request): borrow the head of each pool and register a fresh record;
\* the request's raw buffer then goes out to the capture device
CreateFrame(r) ==
    /\ reqStatus[r] = "Pending"
    /\ \A q \in Requests : q < r => reqStatus[q] # "Pending"
    /\ IF stopRejects(stop_)
       THEN /\ lastResult' = Outcome("create", "ConfigurationError")
            /\ UNCHANGED << availableParamBuffers_, availableStatBuffers_,
                            frameInfo_, nextId, reqStatus, hwRaw, issued >>
       ELSE IF createFails(availableParamBuffers_, availableStatBuffers_)
       THEN /\ lastResult' = Outcome("create", "ResourceExhausted")
            /\ UNCHANGED << availableParamBuffers_, availableStatBuffers_,
                            frameInfo_, nextId, reqStatus, hwRaw, issued >>
       ELSE LET info == Info(nextId, r, Head(availableParamBuffers_),
                             Head(availableStatBuffers_))
            IN /\ availableParamBuffers_' = Tail(availableParamBuffers_)
               /\ availableStatBuffers_' = Tail(availableStatBuffers_)
               /\ frameInfo_' = [ i \in DOMAIN frameInfo_ \cup {nextId} |->
                                    IF i = nextId THEN info ELSE frameInfo_[i] ]
               /\ nextId' = nextId + 1
               /\ reqStatus' = [ reqStatus EXCEPT ![r] = "Queued" ]
               /\ hwRaw' = hwRaw \cup { info.rawBuffer }
               /\ issued' = issued \cup { info }
               /\ lastResult' = Outcome("create", "Ok")
    /\ UNCHANGED << rawDone, reqError, notified, delivered, finalLog, seeded, stop_,
                    lastTry >>
    /\ UNCHANGED notFrames

\* remove() without the existence check
RemoveFrame_unchecked(info) ==
    /\ availableParamBuffers_' =
           poolAfterRemove(availableParamBuffers_, info.paramBuffer)
    /\ availableStatBuffers_' =
           poolAfterRemove(availableStatBuffers_, info.statBuffer)
    /\ frameInfo_' = infosAfterRemove(frameInfo_, info.id)
    /\ lastResult' = Outcome("remove", "Ok")
    /\ UNCHANGED << nextId, reqStatus, rawDone, reqError, hwRaw, notified,
                    delivered, finalLog, issued, seeded, stop_, lastTry >>
    /\ UNCHANGED notFrames

\* remove() that takes a second removal for a first one without a word
RemoveFrame_quiet(info) ==
    /\ IF info.id \notin DOMAIN frameInfo_
       THEN /\ lastResult' = Outcome("remove", "Ok")
            /\ UNCHANGED << availableParamBuffers_, availableStatBuffers_, frameInfo_ >>
       ELSE /\ availableParamBuffers_' =
                   poolAfterRemove(availableParamBuffers_, info.paramBuffer)
            /\ availableStatBuffers_' =
                   poolAfterRemove(availableStatBuffers_, info.statBuffer)
            /\ frameInfo_' = infosAfterRemove(frameInfo_, info.id)
            /\ lastResult' = Outcome("remove", "Ok")
    /\ UNCHANGED << nextId, reqStatus, rawDone, reqError, hwRaw, notified,
                    delivered, finalLog, issued, seeded, stop_, lastTry >>
    /\ UNCHANGED notFrames

\* remove(info): existence check, then return both buffers and erase the record
RemoveFrame(info) ==
    /\ IF info.id \notin DOMAIN frameInfo_
       THEN /\ lastResult' = Outcome("remove", "LogicError")
            /\ UNCHANGED << availableParamBuffers_, availableStatBuffers_, frameInfo_ >>
       ELSE /\ availableParamBuffers_' =
                   poolAfterRemove(availableParamBuffers_, info.paramBuffer)
            /\ availableStatBuffers_' =
                   poolAfterRemove(availableStatBuffers_, info.statBuffer)
            /\ frameInfo_' = infosAfterRemove(frameInfo_, info.id)
            /\ lastResult' = Outcome("remove", "Ok")
    /\ UNCHANGED << nextId, reqStatus, rawDone, reqError, hwRaw, notified,
                    delivered, finalLog, issued, seeded, stop_, lastTry >>
    /\ UNCHANGED notFrames

\* The tracker's client records a sub-event in the frame's Info, a plain
\* struct: the raw buffer's completion shows in the request, the other two in
\* the flags
MarkInfo(id, flag) ==
    /\ id \in DOMAIN frameInfo_
    /\ IF flag = "rawBuffer"
       THEN /\ rawDone' = rawDone \cup { frameInfo_[id].request }
            /\ UNCHANGED frameInfo_
       ELSE /\ frameInfo_' = [ frameInfo_ EXCEPT ![id][flag] = TRUE ]
            /\ UNCHANGED rawDone
    /\ lastResult' = Outcome("mark", "Ok")
    /\ UNCHANGED << availableParamBuffers_, availableStatBuffers_, nextId,
                    reqStatus, reqError, hwRaw, notified, delivered, finalLog,
                    issued, seeded, stop_, lastTry >>
    /\ UNCHANGED notFrames

\* tryComplete() that removes the record itself once the frame is complete
CallTryComplete_finalizes(id) ==
    /\ id \in DOMAIN frameInfo_
    /\ lastTry' = TryRecord(frameInfo_[id], frameInfo_[id].request \in rawDone)
    /\ lastResult' = Outcome("tryComplete", "Ok")
    /\ IF tryComplete(frameInfo_[id], frameInfo_[id].request \in rawDone)
       THEN /\ availableParamBuffers_' =
                   poolAfterRemove(availableParamBuffers_,
                                   frameInfo_[id].paramBuffer)
            /\ availableStatBuffers_' =
                   poolAfterRemove(availableStatBuffers_,
                                   frameInfo_[id].statBuffer)
            /\ frameInfo_' = infosAfterRemove(frameInfo_, id)
       ELSE UNCHANGED << availableParamBuffers_, availableStatBuffers_,
                         frameInfo_ >>
    /\ UNCHANGED << nextId, reqStatus, rawDone, reqError, hwRaw, notified,
                    delivered, finalLog, issued, seeded, stop_ >>
    /\ UNCHANGED notFrames

\* tryComplete(info) called on an in-flight record
CallTryComplete(id) ==
    /\ id \in DOMAIN frameInfo_
    /\ lastTry' = TryRecord(frameInfo_[id], frameInfo_[id].request \in rawDone)
    /\ lastResult' = Outcome("tryComplete", "Ok")
    /\ UNCHANGED << availableParamBuffers_, availableStatBuffers_, frameInfo_,
                    nextId, reqStatus, rawDone, reqError, hwRaw, notified,
                    delivered, finalLog, issued, seeded, stop_ >>
    /\ UNCHANGED notFrames

NextTracker ==
    \/ \E np \in 0..PoolDepth, ns \in 0..PoolDepth : Initialize(np, ns)
    \/ \E r \in Requests : CreateFrame(r)
    \/ \E info \in issued : RemoveFrame(info)

SpecTracker == Init /\ [][NextTracker]_vars

\* The tracker with a client that records sub-events in the frames' Info and
\* asks tryComplete() at any time, on the first MaxLiveFrames requests and
\* with both pools seeded with the same depth
NextProbe ==
    \/ \E n \in 1..PoolDepth : Initialize(n, n)
    \/ \E r \in LiveRequests : CreateFrame(r)
    \/ \E info \in issued : RemoveFrame(info)
    \/ \E id \in 1..MaxLiveFrames :
            \E flag \in { "rawBuffer", "paramDequeued", "metadataProcessed" } :
                MarkInfo(id, flag)
    \/ \E id \in 1..MaxLiveFrames : CallTryComplete(id)

SpecProbe == Init /\ [][NextProbe]_vars

(***************************************************************************)
(* Completion coordinator: one handler per sub-event                       *)
(***************************************************************************)
\* Record of one finalization: the frame, its request and its borrowed buffers
FinalRecord(info, error) ==
    [ id |-> info.id, request |-> info.request,
      paramBuffer |-> info.paramBuffer, statBuffer |-> info.statBuffer,
      error |-> error ]

\* Common tail of the three handlers: with the flag already set in info, call
\* tryComplete; when it returns true mark the request Completed, notify, and
\* remove the record (returning its buffers); otherwise store the flag
Conclude(info, rawCompleted, error, notes) ==
    /\ lastTry' = TryRecord(info, rawCompleted)
    /\ IF tryComplete(info, rawCompleted)
       THEN /\ reqStatus' = [ reqStatus EXCEPT ![info.request] = "Completed" ]
            /\ notified' = Notify(notes, RequestCompleted(info.request))
            /\ finalLog' = finalLog \cup { FinalRecord(info, error) }
            /\ availableParamBuffers_' =
                   poolAfterRemove(availableParamBuffers_, info.paramBuffer)
            /\ availableStatBuffers_' =
                   poolAfterRemove(availableStatBuffers_, info.statBuffer)
            /\ frameInfo_' = infosAfterRemove(frameInfo_, info.id)
            /\ lastResult' = Outcome("event", "Finalized")
       ELSE /\ frameInfo_' = [ frameInfo_ EXCEPT ![info.id] = info ]
            /\ notified' = notes
            /\ lastResult' = Outcome("event", "Open")
            /\ UNCHANGED << reqStatus, finalLog, availableParamBuffers_,
                            availableStatBuffers_ >>

\* A sub-event whose frame is not (or no longer) tracked is dropped
Dropped ==
    /\ lastResult' = Outcome("event", "NotFound")
    /\ UNCHANGED << availableParamBuffers_, availableStatBuffers_, frameInfo_,
                    reqStatus, notified, delivered, finalLog, lastTry >>

\* Raw-buffer handler that bails out on a buffer error
RawReady_errorStuck(buffer, error) ==
    /\ buffer \in hwRaw
    /\ hwRaw' = hwRaw \ { buffer }
    /\ LET info == findByBuffer(frameInfo_, buffer)
       IN IF info = NoInfo
          THEN Dropped /\ UNCHANGED << rawDone, reqError >>
          ELSE IF error
          THEN /\ reqError' = reqError \cup { info.request }
               /\ lastResult' = Outcome("event", "Open")
               /\ UNCHANGED << rawDone, availableParamBuffers_,
                               availableStatBuffers_, frameInfo_, reqStatus,
                               notified, delivered, finalLog, lastTry >>
          ELSE /\ rawDone' = rawDone \cup { info.request }
               /\ reqError' = reqError
               /\ delivered' = delivered \cup { << info.id, "raw" >> }
               /\ Conclude(info, TRUE, error,
                           Notify(notified, BufferCompleted(info.request, buffer)))
    /\ UNCHANGED << nextId, issued, seeded, stop_ >>
    /\ UNCHANGED notFrames

\* The capture device hands back a raw buffer, possibly flagged with an error
RawReady(buffer, error) ==
    /\ buffer \in hwRaw
    /\ hwRaw' = hwRaw \ { buffer }
    /\ LET info == findByBuffer(frameInfo_, buffer)
       IN IF info = NoInfo
          THEN Dropped /\ UNCHANGED << rawDone, reqError >>
          ELSE /\ rawDone' = rawDone \cup { info.request }
               /\ reqError' = IF error THEN reqError \cup { info.request }
                                       ELSE reqError
               /\ delivered' = delivered \cup { << info.id, "raw" >> }
               /\ Conclude(info, TRUE, error,
                           Notify(notified, BufferCompleted(info.request, buffer)))
    /\ UNCHANGED << nextId, issued, seeded, stop_ >>
    /\ UNCHANGED notFrames

\* The parameter buffer of frame id was dequeued from the ISP
ParamDequeued(id) ==
    /\ LET info == findById(frameInfo_, id)
       IN IF info = NoInfo
          THEN Dropped
          ELSE /\ delivered' = delivered \cup { << info.id, "param" >> }
               /\ Conclude([ info EXCEPT !.paramDequeued = TRUE ],
                           info.request \in rawDone, info.request \in reqError,
                           notified)
    /\ UNCHANGED << nextId, rawDone, reqError, hwRaw, issued, seeded, stop_ >>
    /\ UNCHANGED notFrames

\* The algorithm engine delivered the metadata-ready action of frame id
MetadataReady(id) ==
    /\ LET info == findById(frameInfo_, id)
       IN IF info = NoInfo
          THEN Dropped
          ELSE /\ delivered' = delivered \cup { << info.id, "meta" >> }
               /\ Conclude([ info EXCEPT !.metadataProcessed = TRUE ],
                           info.request \in rawDone, info.request \in reqError,
                           notified)
    /\ UNCHANGED << nextId, rawDone, reqError, hwRaw, issued, seeded, stop_ >>
    /\ UNCHANGED notFrames

NextCoord ==
    \/ \E np \in 1..PoolDepth, ns \in 1..PoolDepth : Initialize(np, ns)
    \/ \E r \in Requests : CreateFrame(r)
    \/ \E r \in Requests, error \in BOOLEAN : RawReady(RawBuf(r), error)
    \/ \E id \in 1..MaxFrames : ParamDequeued(id)
    \/ \E id \in 1..MaxFrames : MetadataReady(id)
    \/ \E id \in 1..MaxFrames : CallTryComplete(id)

SpecCoord == Init /\ [][NextCoord]_vars

\* The event loop keeps dispatching: a pending parameter-dequeued or
\* metadata-ready event of a frame is eventually delivered
CoordFairness ==
    \A id \in 1..MaxFrames :
        /\ WF_vars(ParamDequeued(id))
        /\ WF_vars(MetadataReady(id))

\* The coordinator alone on the first MaxLiveFrames requests, both pools
\* seeded with the same depth, without the tryComplete() probe
NextLive ==
    \/ \E n \in 1..PoolDepth : Initialize(n, n)
    \/ \E r \in LiveRequests : CreateFrame(r)
    \/ \E r \in LiveRequests, error \in BOOLEAN : RawReady(RawBuf(r), error)
    \/ \E id \in 1..MaxLiveFrames : ParamDequeued(id)
    \/ \E id \in 1..MaxLiveFrames : MetadataReady(id)

LiveCoord == Init /\ [][NextLive]_vars /\ CoordFairness

(***************************************************************************)
(* Stream stop: no new frame from its start, the open frames are waited    *)
(* for or completed with an error, then the pools are released             *)
(***************************************************************************)
\* The stop begins
StopBegin ==
    /\ stop_ = "no"
    /\ stop_' = "draining"
    /\ lastResult' = Outcome("stop", "Draining")
    /\ UNCHANGED << availableParamBuffers_, availableStatBuffers_, frameInfo_,
                    nextId, reqStatus, rawDone, reqError, hwRaw, notified,
                    delivered, finalLog, issued, seeded, lastTry >>
    /\ UNCHANGED notFrames

\* The stop completes the open frame id with an error: its request is marked
\* Completed and notified, its raw buffer is taken back from the capture
\* device, its record is removed and its buffers are returned
StopDrain(id) ==
    /\ stop_ = "draining"
    /\ id \in DOMAIN frameInfo_
    /\ LET info == frameInfo_[id]
       IN /\ reqStatus' = [ reqStatus EXCEPT ![info.request] = "Completed" ]
          /\ reqError' = reqError \cup { info.request }
          /\ notified' = Notify(notified, RequestCompleted(info.request))
          /\ finalLog' = finalLog \cup { FinalRecord(info, TRUE) }
          /\ hwRaw' = hwRaw \ { info.rawBuffer }
          /\ availableParamBuffers_' =
                 poolAfterRemove(availableParamBuffers_, info.paramBuffer)
          /\ availableStatBuffers_' =
                 poolAfterRemove(availableStatBuffers_, info.statBuffer)
          /\ frameInfo_' = infosAfterRemove(frameInfo_, info.id)
    /\ lastResult' = Outcome("stop", "Cancelled")
    /\ UNCHANGED << nextId, rawDone, delivered, issued, seeded, stop_,
                    lastTry >>
    /\ UNCHANGED notFrames

\* clear(): with no frame left open the stop releases the pools
StopRelease ==
    /\ stop_ = "draining"
    /\ DOMAIN frameInfo_ = {}
    /\ availableParamBuffers_' = << >>
    /\ availableStatBuffers_' = << >>
    /\ seeded' = << {}, {} >>
    /\ stop_' = "released"
    /\ lastResult' = Outcome("stop", "Released")
    /\ UNCHANGED << frameInfo_, nextId, reqStatus, rawDone, reqError, hwRaw,
                    notified, delivered, finalLog, issued, lastTry >>
    /\ UNCHANGED notFrames

StopDrains == \E id \in 1..MaxLiveFrames : StopDrain(id)

\* The pipeline seeds both pools to their full depth
NextStop ==
    \/ Initialize(PoolDepth, PoolDepth)
    \/ \E r \in LiveRequests : CreateFrame(r)
    \/ \E r \in LiveRequests, error \in BOOLEAN : RawReady(RawBuf(r), error)
    \/ \E id \in 1..MaxLiveFrames : ParamDequeued(id)
    \/ \E id \in 1..MaxLiveFrames : MetadataReady(id)
    \/ StopBegin
    \/ StopDrains
    \/ StopRelease

\* A stop that has begun goes on: it does not wait for ever for an open frame
\* and releases the pools once no frame is open
LiveStop ==
    Init /\ [][NextStop]_vars /\ WF_vars(StopDrains) /\ WF_vars(StopRelease)

(***************************************************************************)
(* Vimc pipeline: buffer completion                                        *)
(***************************************************************************)
VimcBuf(r) == << "video", r >>

\* PipelineHandler::completeBuffer(): the camera is told the buffer completed
completeBuffer(log, request, buffer) ==
    Append(log, BufferCompleted(request, buffer))

\* PipelineHandler::completeRequest(): the camera is told the request completed
completeRequest(log, request) ==
    Append(log, RequestCompleted(request))

\* queueRequestDevice(): the request's buffer is queued to the video device
VimcQueueBuffer(r) ==
    /\ vimcStatus[r] = "Pending"
    /\ vimcQueued' = vimcQueued \cup { r }
    /\ vimcStatus' = [ vimcStatus EXCEPT ![r] = "Queued" ]
    /\ UNCHANGED << vimcMetadata, vimcNotified, vimcDevVars >>
    /\ UNCHANGED notVimc

\* bufferReady() with the two notifications swapped
VimcBufferReady_swapped(r, timestamp) ==
    /\ r \in vimcQueued
    /\ vimcQueued' = vimcQueued \ { r }
    /\ vimcMetadata' = [ vimcMetadata EXCEPT ![r] = timestamp ]
    /\ vimcNotified' = completeBuffer(completeRequest(vimcNotified, r),
                                      r, VimcBuf(r))
    /\ vimcStatus' = [ vimcStatus EXCEPT ![r] = "Completed" ]
    /\ UNCHANGED vimcDevVars
    /\ UNCHANGED notVimc

\* VimcCameraData::bufferReady(buffer): record the sensor timestamp, then
\* completeBuffer(), then completeRequest()
VimcBufferReady(r, timestamp) ==
    /\ r \in vimcQueued
    /\ vimcQueued' = vimcQueued \ { r }
    /\ vimcMetadata' = [ vimcMetadata EXCEPT ![r] = timestamp ]
    /\ vimcNotified' = completeRequest(
                           completeBuffer(vimcNotified, r, VimcBuf(r)), r)
    /\ vimcStatus' = [ vimcStatus EXCEPT ![r] = "Completed" ]
    /\ UNCHANGED vimcDevVars
    /\ UNCHANGED notVimc

NextVimc ==
    \/ \E r \in Requests : VimcQueueBuffer(r)
    \/ \E r \in Requests, ts \in 1..MaxTimestamp : VimcBufferReady(r, ts)

SpecVimc == Init /\ [][NextVimc]_vars

(***************************************************************************)
(* V4L2Device: the device behind the file descriptor                       *)
(***************************************************************************)
EINVAL == 22
EBUSY == 16

\* Controls the device enumerates through VIDIOC_QUERY_EXT_CTRL, by id
DevControls ==
    [ id \in 1..5 |->
        CASE id = 1 -> [ type |-> "INTEGER", flags |-> {}, minimum |-> 0,
                         maximum |-> 2, default_value |-> 1 ]
          [] id = 2 -> [ type |-> "INTEGER64", flags |-> {}, minimum |-> 0,
                         maximum |-> 3, default_value |-> 1 ]
          [] id = 3 -> [ type |-> "U8", flags |-> { "HAS_PAYLOAD" },
                         minimum |-> 0, maximum |-> 2, default_value |-> 0 ]
          [] id = 4 -> [ type |-> "INTEGER", flags |-> { "DISABLED" },
                         minimum |-> 0, maximum |-> 2, default_value |-> 1 ]
          [] id = 5 -> [ type |-> "INTEGER", flags |-> { "READ_ONLY" },
                         minimum |-> 0, maximum |-> 2, default_value |-> 1 ] ]

\* Ids a caller may name: those of the device and one the device does not have
CallerIds == DOMAIN DevControls \cup { 6 }

\* ControlValue: a scalar or an array
Scalar(v) == [ arr |-> FALSE, v |-> v ]
Array(v) == [ arr |-> TRUE, v |-> v ]

\* Values a caller stores under an id (5 is above every maximum)
ValuesFor(id) ==
    IF id = 3 THEN { Array(1), Array(5), Scalar(1) }
    ELSE IF id \in { 4, 6 } THEN { Scalar(1) }
    ELSE { Scalar(1), Scalar(5) }

\* The device clamps what it is asked to apply to the control's range
DevClamp(id, v) ==
    IF v < DevControls[id].minimum THEN DevControls[id].minimum
    ELSE IF v > DevControls[id].maximum THEN DevControls[id].maximum
    ELSE v

\* ControlType v4l2CtrlType(uint32_t ctrlType)
v4l2CtrlType(ctrlType) ==
    CASE ctrlType = "U8" -> "Byte"
      [] ctrlType = "BOOLEAN" -> "Bool"
      [] ctrlType = "INTEGER" -> "Integer32"
      [] ctrlType = "INTEGER64" -> "Integer64"
      [] ctrlType \in { "MENU", "BUTTON", "BITMASK", "INTEGER_MENU" } -> "Integer32"
      [] OTHER -> "None"

\* static_cast of a 64-bit field of v4l2_query_ext_ctrl to the value type of
\* the control: uint8_t, bool, or a signed integer type (the values of the
\* model fit in 32 bits, where the signed casts keep them)
castTo(ctrlType, v) ==
    CASE ctrlType = "U8" -> v % 256
      [] ctrlType = "BOOLEAN" -> IF v # 0 THEN 1 ELSE 0
      [] OTHER -> v

\* ControlInfo v4l2ControlInfo(const v4l2_query_ext_ctrl &ctrl), with the type
\* of the ControlId it is stored under
v4l2ControlInfo(ctrl) ==
    [ type |-> v4l2CtrlType(ctrl.type),
      min |-> castTo(ctrl.type, ctrl.minimum),
      max |-> castTo(ctrl.type, ctrl.maximum),
      def |-> castTo(ctrl.type, ctrl.default_value) ]

\* listControls(): the ids kept from the enumeration
listedIds ==
    { id \in DOMAIN DevControls :
        /\ DevControls[id].type # "CTRL_CLASS"
        /\ "DISABLED" \notin DevControls[id].flags
        /\ DevControls[id].type \in { "INTEGER", "BOOLEAN", "MENU", "BUTTON",
                                      "INTEGER64", "BITMASK", "INTEGER_MENU",
                                      "U8" } }

(***************************************************************************)
(* ControlList access                                                      *)
(***************************************************************************)
ListIds(ctrls) == { ctrls[i].id : i \in 1..Len(ctrls) }

ListIndex(ctrls, id) == CHOOSE i \in 1..Len(ctrls) : ctrls[i].id = id

\* ControlList::get(id)
ListGet(ctrls, id) ==
    IF id \in ListIds(ctrls) THEN ctrls[ListIndex(ctrls, id)].value
    ELSE Scalar(0)

\* ControlList::set(id, value): overwrite in place, or add a new entry
ListSet(ctrls, id, value) ==
    IF id \in ListIds(ctrls)
    THEN [ ctrls EXCEPT ![ListIndex(ctrls, id)].value = value ]
    ELSE Append(ctrls, [ id |-> id, value |-> value ])

(***************************************************************************)
(* V4L2Device::setControls and its helpers                                 *)
(***************************************************************************)
\* A batch filled from the list read backwards
setExtControl_reversed(ctrls, infos, i) ==
    LET j == Len(ctrls) + 1 - i
        zero == [ id |-> 0, value |-> 0, value64 |-> 0, p_u8 |-> 0, size |-> 0 ]
    IN CASE infos[ctrls[j].id].type = "Integer64" ->
                [ zero EXCEPT !.id = ctrls[j].id, !.value64 = ctrls[j].value.v ]
         [] infos[ctrls[j].id].type = "Byte" ->
                [ zero EXCEPT !.id = ctrls[j].id, !.p_u8 = j, !.size = 1 ]
         [] OTHER ->
                [ zero EXCEPT !.id = ctrls[j].id, !.value = ctrls[j].value.v ]

\* v4l2_ext_control as setControls() fills it for entry i of the list: zeroed,
\* then id and the member that matches the control type
setExtControl(ctrls, infos, i) ==
    LET id == ctrls[i].id
        value == ctrls[i].value
        zero == [ id |-> 0, value |-> 0, value64 |-> 0, p_u8 |-> 0, size |-> 0 ]
    IN CASE infos[id].type = "Integer64" ->
                [ zero EXCEPT !.id = id, !.value64 = value.v ]
         [] infos[id].type = "Byte" ->
                [ zero EXCEPT !.id = id, !.p_u8 = i, !.size = 1 ]
         [] OTHER ->
                [ zero EXCEPT !.id = id, !.value = value.v ]

\* Entries the validation loop of setControls() stops at: unknown id, or a
\* byte control given a value that is not an array
invalidEntries(ctrls, infos) ==
    { i \in 1..Len(ctrls) :
        \/ ctrls[i].id \notin DOMAIN infos
        \/ (infos[ctrls[i].id].type = "Byte" /\ ~ctrls[i].value.arr) }

\* VIDIOC_S_EXT_CTRLS as the device answers it.  k = -1: the whole batch is
\* accepted; k >= 0: the call fails with error_idx = k.  Entries below
\* error_idx are applied (none when error_idx is the batch size); an applied
\* entry gets the value the device settled on, written to the member of its
\* type or, for a payload control, straight into the ControlValue storage.
DeviceSetExtCtrls(v4l2Ctrls, ctrls, k) ==
    LET n == Len(v4l2Ctrls)
        done == IF k = -1 THEN 1..n ELSE IF k >= n THEN {} ELSE 1..k
        asked(i) ==
            LET c == v4l2Ctrls[i]
            IN CASE DevControls[c.id].type = "INTEGER64" -> c.value64
                 [] "HAS_PAYLOAD" \in DevControls[c.id].flags -> ctrls[c.p_u8].value.v
                 [] OTHER -> c.value
        settled(i) == DevClamp(v4l2Ctrls[i].id, asked(i))
    IN [ request |-> "VIDIOC_S_EXT_CTRLS",
         ret |-> IF k = -1 THEN 0 ELSE -34,
         error_idx |-> IF k = -1 THEN 0 ELSE k,
         sent |-> v4l2Ctrls,
         applied |-> [ i \in done |-> settled(i) ],
         v4l2Ctrls |->
             [ i \in 1..n |->
                 IF i \notin done THEN v4l2Ctrls[i]
                 ELSE CASE DevControls[v4l2Ctrls[i].id].type = "INTEGER64" ->
                             [ v4l2Ctrls[i] EXCEPT !.value64 = settled(i) ]
                        [] "HAS_PAYLOAD" \in DevControls[v4l2Ctrls[i].id].flags ->
                             v4l2Ctrls[i]
                        [] OTHER ->
                             [ v4l2Ctrls[i] EXCEPT !.value = settled(i) ] ],
         ctrls |->
             [ j \in 1..Len(ctrls) |->
                 IF \E i \in done : v4l2Ctrls[i].p_u8 = j
                 THEN [ ctrls[j] EXCEPT !.value.v =
                          settled(CHOOSE i \in done : v4l2Ctrls[i].p_u8 = j) ]
                 ELSE ctrls[j] ] ]

\* updateControls() that reads the 32-bit member for every control type
RECURSIVE updateControls_value32(_, _, _)
updateControls_value32(ctrls, v4l2Ctrls, infos) ==
    IF v4l2Ctrls = << >> THEN ctrls
    ELSE LET c == Head(v4l2Ctrls)
             value == ListGet(ctrls, c.id)
             type == infos[c.id].type
             updated == IF type = "Byte" THEN value ELSE Scalar(c.value)
         IN updateControls_value32(ListSet(ctrls, c.id, updated),
                                   Tail(v4l2Ctrls), infos)

\* updateControls(ctrls, v4l2Ctrls): for each v4l2 control in turn, take the
\* list's value for its id, overwrite it from the member of the control type
\* (nothing to do for a byte array) and store it back
RECURSIVE updateControls(_, _, _)
updateControls(ctrls, v4l2Ctrls, infos) ==
    IF v4l2Ctrls = << >> THEN ctrls
    ELSE LET c == Head(v4l2Ctrls)
             value == ListGet(ctrls, c.id)
         IN IF c.id \notin DOMAIN infos
            THEN ctrls  \* ASSERT(iter != controls_.end())
            ELSE LET type == infos[c.id].type
                     updated ==
                         CASE type = "Integer64" -> Scalar(c.value64)
                           [] type = "Byte" -> value
                           [] OTHER -> Scalar(c.value)
                 IN updateControls(ListSet(ctrls, c.id, updated),
                                   Tail(v4l2Ctrls), infos)

\* Error handling that keeps one control too few after a partial failure
setControlsResult_shortResize(infos, dev) ==
    LET n == Len(dev.v4l2Ctrls)
    IN IF dev.ret # 0
       THEN IF dev.error_idx = 0 \/ dev.error_idx >= n
            THEN [ ret |-> -EINVAL, ctrls |-> dev.ctrls ]
            ELSE [ ret |-> dev.error_idx,
                   ctrls |-> updateControls(dev.ctrls,
                                 SubSeq(dev.v4l2Ctrls, 1, dev.error_idx - 1),
                                 infos) ]
       ELSE [ ret |-> 0,
              ctrls |-> updateControls(dev.ctrls, dev.v4l2Ctrls, infos) ]

\* Error handling that takes every error_idx for a failing control
setControlsResult_noGeneric(infos, dev) ==
    IF dev.ret # 0
    THEN LET k == IF dev.error_idx > Len(dev.v4l2Ctrls)
                  THEN Len(dev.v4l2Ctrls) ELSE dev.error_idx
         IN [ ret |-> dev.error_idx,
              ctrls |-> updateControls(dev.ctrls, SubSeq(dev.v4l2Ctrls, 1, k),
                                       infos) ]
    ELSE [ ret |-> 0,
           ctrls |-> updateControls(dev.ctrls, dev.v4l2Ctrls, infos) ]

\* setControls() after the ioctl: a generic validation error (error_idx 0 or
\* past the end) gives -EINVAL; a failing control truncates the batch to
\* error_idx entries and is the return value; then updateControls()
setControlsResult(infos, dev) ==
    LET n == Len(dev.v4l2Ctrls)
    IN IF dev.ret # 0
       THEN IF dev.error_idx = 0 \/ dev.error_idx >= n
            THEN [ ret |-> -EINVAL, ctrls |-> dev.ctrls ]
            ELSE [ ret |-> dev.error_idx,
                   ctrls |-> updateControls(dev.ctrls,
                                 SubSeq(dev.v4l2Ctrls, 1, dev.error_idx),
                                 infos) ]
       ELSE [ ret |-> 0,
              ctrls |-> updateControls(dev.ctrls, dev.v4l2Ctrls, infos) ]

\* setControls() that skips the entries it cannot validate
setControls_skipInvalid(ctrls, infos, k) ==
    LET kept == SelectSeq(ctrls, LAMBDA e :
                    e.id \in DOMAIN infos
                    /\ (infos[e.id].type = "Byte" => e.value.arr))
    IN IF kept = << >>
       THEN [ ret |-> 0, ctrls |-> ctrls, io |-> << >> ]
       ELSE LET v4l2Ctrls == [ i \in 1..Len(kept) |->
                                  setExtControl(kept, infos, i) ]
                dev == DeviceSetExtCtrls(v4l2Ctrls, kept, k)
                res == setControlsResult(infos, dev)
            IN [ ret |-> res.ret, ctrls |-> ctrls, io |-> << dev >> ]

\* int V4L2Device::setControls(ControlList *ctrls), the device answering k
setControls(ctrls, infos, k) ==
    IF ctrls = << >>
    THEN [ ret |-> 0, ctrls |-> ctrls, io |-> << >> ]
    ELSE IF invalidEntries(ctrls, infos) # {}
    THEN [ ret |-> -EINVAL, ctrls |-> ctrls, io |-> << >> ]
    ELSE LET v4l2Ctrls == [ i \in 1..Len(ctrls) |->
                               setExtControl(ctrls, infos, i) ]
             dev == DeviceSetExtCtrls(v4l2Ctrls, ctrls, k)
             res == setControlsResult(infos, dev)
         IN [ ret |-> res.ret, ctrls |-> res.ctrls, io |-> << dev >> ]

(***************************************************************************)
(* V4L2Device::getControls and its helpers                                 *)
(***************************************************************************)
\* ControlValue(): a value of type none
NoneValue == [ arr |-> FALSE, none |-> TRUE ]

\* The value the device currently holds for a control: cur selects its
\* default or its maximum
DevValue(id, cur) ==
    IF cur = "max" THEN DevControls[id].maximum
    ELSE DevControls[id].default_value

\* The loop over ids of getControls(): ctrls.set(id, {}) for each id in turn
RECURSIVE requestedList(_, _)
requestedList(ctrls, ids) ==
    IF ids = << >> THEN ctrls
    ELSE requestedList(ListSet(ctrls, Head(ids), NoneValue), Tail(ids))

\* The ControlValue of entry j once getControls() has prepared it: a payload
\* control gets a byte array of zeroes for the device to fill
reservedList(ctrls, cinfo) ==
    [ j \in 1..Len(ctrls) |->
        IF "HAS_PAYLOAD" \in cinfo[ctrls[j].id].flags
        THEN [ ctrls[j] EXCEPT !.value = Array(0) ]
        ELSE ctrls[j] ]

\* Payload controls of a type getControls() cannot read
unsupportedPayload(ctrls, cinfo) ==
    { j \in 1..Len(ctrls) :
        /\ "HAS_PAYLOAD" \in cinfo[ctrls[j].id].flags
        /\ cinfo[ctrls[j].id].type # "U8" }

\* The v4l2_ext_control vector of getControls(): one zeroed element per
\* requested id, filled from the front with the entries of the list
getExtControls(ids, ctrls, cinfo) ==
    LET zero == [ id |-> 0, value |-> 0, value64 |-> 0, p_u8 |-> 0, size |-> 0 ]
    IN [ i \in 1..Len(ids) |->
           IF i > Len(ctrls) THEN zero
           ELSE IF "HAS_PAYLOAD" \in cinfo[ctrls[i].id].flags
           THEN [ zero EXCEPT !.id = ctrls[i].id, !.p_u8 = i, !.size = 1 ]
           ELSE [ zero EXCEPT !.id = ctrls[i].id ] ]

\* The batch names an id the device does not have
namesUnknown(v4l2Ctrls) ==
    \E i \in 1..Len(v4l2Ctrls) : v4l2Ctrls[i].id \notin DOMAIN DevControls

\* VIDIOC_G_EXT_CTRLS as the device answers it.  k = -1: every control is
\* read; k >= 0: the call fails with error_idx = k, the controls below
\* error_idx having been read (none when error_idx is not below the batch
\* size, or when the batch names an id the device does not have).  A value
\* read goes to the member of the control's type or, for a payload control,
\* straight into the ControlValue storage.
DeviceGetExtCtrls(v4l2Ctrls, ctrls, k, cur) ==
    LET n == Len(v4l2Ctrls)
        done == IF namesUnknown(v4l2Ctrls) THEN {}
                ELSE IF k = -1 THEN 1..n ELSE IF k >= n THEN {} ELSE 1..k
    IN [ request |-> "VIDIOC_G_EXT_CTRLS",
         ret |-> IF k = -1 THEN 0 ELSE -34,
         error_idx |-> IF k = -1 THEN 0 ELSE k,
         sent |-> v4l2Ctrls,
         read |-> [ i \in done |-> DevValue(v4l2Ctrls[i].id, cur) ],
         v4l2Ctrls |->
             [ i \in 1..n |->
                 IF i \notin done THEN v4l2Ctrls[i]
                 ELSE CASE DevControls[v4l2Ctrls[i].id].type = "INTEGER64" ->
                             [ v4l2Ctrls[i] EXCEPT
                                 !.value64 = DevValue(v4l2Ctrls[i].id, cur) ]
                        [] "HAS_PAYLOAD" \in DevControls[v4l2Ctrls[i].id].flags ->
                             v4l2Ctrls[i]
                        [] OTHER ->
                             [ v4l2Ctrls[i] EXCEPT
                                 !.value = DevValue(v4l2Ctrls[i].id, cur) ] ],
         ctrls |->
             [ j \in 1..Len(ctrls) |->
                 IF \E i \in done : v4l2Ctrls[i].p_u8 = j
                 THEN [ ctrls[j] EXCEPT !.value.v = DevValue(ctrls[j].id, cur) ]
                 ELSE ctrls[j] ] ]

\* Error handling that returns the list as prepared, without the values read
getControlsResult_noUpdate(infos, dev) ==
    LET n == Len(dev.v4l2Ctrls)
    IN IF dev.ret # 0
       THEN IF dev.error_idx = 0 \/ dev.error_idx >= n
            THEN [ ret |-> << >>, log |-> -1 ]
            ELSE [ ret |-> dev.ctrls, log |-> dev.error_idx ]
       ELSE [ ret |-> updateControls(dev.ctrls, dev.v4l2Ctrls, infos),
              log |-> -1 ]

\* getControls() after the ioctl: a generic validation error gives the empty
\* list; a failing control is logged and truncates the batch to error_idx
\* entries; then updateControls() on the list that is returned
getControlsResult(infos, dev) ==
    LET n == Len(dev.v4l2Ctrls)
    IN IF dev.ret # 0
       THEN IF dev.error_idx = 0 \/ dev.error_idx >= n
            THEN [ ret |-> << >>, log |-> -1 ]
            ELSE [ ret |-> updateControls(dev.ctrls,
                               SubSeq(dev.v4l2Ctrls, 1, dev.error_idx), infos),
                   log |-> dev.error_idx ]
       ELSE [ ret |-> updateControls(dev.ctrls, dev.v4l2Ctrls, infos),
              log |-> -1 ]

\* getControls() that leaves out the ids it does not find
getControls_skipInvalid(ids, infos, cinfo, k, cur) ==
    LET kept == SelectSeq(ids, LAMBDA id : id \in DOMAIN infos)
    IN IF kept = << >>
       THEN [ ret |-> << >>, log |-> -1, io |-> << >> ]
       ELSE LET ctrls == reservedList(requestedList(<< >>, kept), cinfo)
                dev == DeviceGetExtCtrls(getExtControls(kept, ctrls, cinfo),
                                         ctrls, k, cur)
                res == getControlsResult(infos, dev)
            IN [ ret |-> res.ret, log |-> res.log, io |-> << dev >> ]

\* ControlList V4L2Device::getControls(const std::vector<uint32_t> &ids), the
\* device answering k
getControls(ids, infos, cinfo, k, cur) ==
    IF ids = << >>
    THEN [ ret |-> << >>, log |-> -1, io |-> << >> ]
    ELSE IF \E i \in 1..Len(ids) : ids[i] \notin DOMAIN infos
    THEN [ ret |-> << >>, log |-> -1, io |-> << >> ]
    ELSE LET listed == requestedList(<< >>, ids)
         IN IF unsupportedPayload(listed, cinfo) # {}
            THEN [ ret |-> << >>, log |-> -1, io |-> << >> ]
            ELSE LET ctrls == reservedList(listed, cinfo)
                     dev == DeviceGetExtCtrls(getExtControls(ids, ctrls, cinfo),
                                              ctrls, k, cur)
                     res == getControlsResult(infos, dev)
                 IN [ ret |-> res.ret, log |-> res.log, io |-> << dev >> ]

(***************************************************************************)
(* V4L2Device::updateControlInfo                                           *)
(***************************************************************************)
\* How the device answers one VIDIOC_QUERY_EXT_CTRL of a refresh: the query
\* fails, or it reports the range the control was listed with, or the range
\* the control has after a format change
QueryAnswers == { "fail", "same", "changed" }

\* v4l2_query_ext_ctrl as the device fills it for a query that succeeds
DevQuery(id, answer) ==
    IF answer = "changed"
    THEN [ DevControls[id] EXCEPT !.minimum = @ + 1, !.maximum = @ + 2,
                                  !.default_value = @ + 1 ]
    ELSE DevControls[id]

\* The ids of a map in the order the refresh visits them
RECURSIVE idsInOrder(_)
idsInOrder(S) ==
    IF S = {} THEN << >>
    ELSE LET id == CHOOSE x \in S : \A y \in S : x <= y
         IN << id >> \o idsInOrder(S \ { id })

\* updateControlInfo() that stops at the first query that fails
RECURSIVE updateControlInfo_abort(_, _, _, _)
updateControlInfo_abort(ids, infos, cinfo, answers) ==
    IF ids = << >> \/ answers[Head(ids)] = "fail"
    THEN [ controls |-> infos, controlInfo |-> cinfo ]
    ELSE LET id == Head(ids)
             ctrl == DevQuery(id, answers[id])
             info == v4l2ControlInfo(ctrl)
         IN updateControlInfo_abort(Tail(ids),
                [ infos EXCEPT ![id].min = info.min, ![id].max = info.max,
                               ![id].def = info.def ],
                [ cinfo EXCEPT ![id] = ctrl ], answers)

\* void V4L2Device::updateControlInfo(): for each control of controls_, query
\* the device into the control's controlInfo_ entry; a query that fails is
\* skipped, one that succeeds replaces the ControlInfo stored under the
\* control's ControlId
RECURSIVE updateControlInfo(_, _, _, _)
updateControlInfo(ids, infos, cinfo, answers) ==
    IF ids = << >>
    THEN [ controls |-> infos, controlInfo |-> cinfo ]
    ELSE LET id == Head(ids)
         IN IF answers[id] = "fail"
            THEN updateControlInfo(Tail(ids), infos, cinfo, answers)
            ELSE LET ctrl == DevQuery(id, answers[id])
                     info == v4l2ControlInfo(ctrl)
                 IN updateControlInfo(Tail(ids),
                        [ infos EXCEPT ![id].min = info.min,
                                       ![id].max = info.max,
                                       ![id].def = info.def ],
                        [ cinfo EXCEPT ![id] = ctrl ], answers)

(***************************************************************************)
(* V4L2Device operations                                                   *)
(***************************************************************************)
\* A device that never counts as open
isOpen_never(fd) == fd < -1

\* bool isOpen() const: fd_ != -1
isOpen(fd) == fd # -1

\* The process has not been stopped by a signal
Running == v4l2Call.op # "trap"

\* open(flags): -EBUSY when open; else openat(), whose failure is returned;
\* else setFd() and listControls()
Open(errno) ==
    /\ Running
    /\ IF isOpen(fd_)
       THEN /\ v4l2Call' = [ op |-> "open", ret |-> -EBUSY ]
            /\ UNCHANGED << fd_, fdEventNotifier_, controls_, controlInfo_ >>
       ELSE IF errno # 0
       THEN /\ v4l2Call' = [ op |-> "open", ret |-> -errno ]
            /\ UNCHANGED << fd_, fdEventNotifier_, controls_, controlInfo_ >>
       ELSE /\ fd_' = 3
            /\ fdEventNotifier_' = "disabled"
            /\ controlInfo_' = [ id \in DOMAIN controlInfo_ \cup listedIds |->
                                   IF id \in DOMAIN controlInfo_
                                   THEN controlInfo_[id] ELSE DevControls[id] ]
            /\ controls_' = [ id \in listedIds |-> v4l2ControlInfo(DevControls[id]) ]
            /\ v4l2Call' = [ op |-> "open", ret |-> 0 ]
    /\ v4l2Io' = << >>
    /\ UNCHANGED << eventVars, ctrlList, idList >>
    /\ UNCHANGED notV4l2

\* int setFd(int fd): -EBUSY when open; else keep fd and create the event
\* notifier, disabled
SetFd(fd) ==
    /\ Running
    /\ IF isOpen(fd_)
       THEN /\ v4l2Call' = [ op |-> "setFd", ret |-> -EBUSY ]
            /\ UNCHANGED << fd_, fdEventNotifier_ >>
       ELSE /\ fd_' = fd
            /\ fdEventNotifier_' = "disabled"
            /\ v4l2Call' = [ op |-> "setFd", ret |-> 0 ]
    /\ v4l2Io' = << >>
    /\ UNCHANGED << eventVars, controls_, controlInfo_, ctrlList, idList >>
    /\ UNCHANGED notV4l2

\* close(): nothing when not open; else delete the notifier, close, fd_ = -1.
\* The device forgets the subscriptions of a closed file descriptor
Close ==
    /\ Running
    /\ IF ~isOpen(fd_)
       THEN UNCHANGED << fd_, fdEventNotifier_, subscribed >>
       ELSE /\ fdEventNotifier_' = "deleted"
            /\ fd_' = -1
            /\ subscribed' = FALSE
    /\ v4l2Call' = [ op |-> "close", ret |-> 0 ]
    /\ v4l2Io' = << >>
    /\ UNCHANGED << frameStartEnabled_, controls_, controlInfo_, ctrlList,
                    idList >>
    /\ UNCHANGED notV4l2

\* The caller stores a value under a new id of its ControlList; it prepares
\* either a write or a read
CallerSet(id, value) ==
    /\ idList = << >>
    /\ Len(ctrlList) < MaxCtrls
    /\ id \notin ListIds(ctrlList)
    /\ ctrlList' = ListSet(ctrlList, id, value)
    /\ v4l2Call' = NoCall
    /\ v4l2Io' = << >>
    /\ UNCHANGED << fd_, fdEventNotifier_, eventVars, controls_, controlInfo_, idList >>
    /\ UNCHANGED notV4l2

\* The caller empties its ControlList
CallerClear ==
    /\ ctrlList # << >>
    /\ ctrlList' = << >>
    /\ v4l2Call' = NoCall
    /\ v4l2Io' = << >>
    /\ UNCHANGED << fd_, fdEventNotifier_, eventVars, controls_, controlInfo_, idList >>
    /\ UNCHANGED notV4l2

\* The batch names a control the device flags read-only
namesReadOnly(ctrls) ==
    \E i \in 1..Len(ctrls) :
        /\ ctrls[i].id \in DOMAIN DevControls
        /\ "READ_ONLY" \in DevControls[ctrls[i].id].flags

\* setControls(&ctrlList).  On a closed device the ioctl fails before the
\* driver sees the request, error_idx staying at its initial 0.  An open
\* device that is asked to write a read-only control rejects the batch
\* while validating it, with error_idx set to the batch size.
SetControls(k) ==
    /\ k <= Len(ctrlList) + 1
    /\ fd_ = -1 => k = 0
    /\ (fd_ # -1 /\ namesReadOnly(ctrlList)) => k = Len(ctrlList)
    /\ LET r == setControls(ctrlList, controls_, k)
       IN /\ ctrlList' = r.ctrls
          /\ v4l2Io' = r.io
          /\ v4l2Call' = [ op |-> "setControls", ret |-> r.ret,
                           before |-> ctrlList ]
    /\ UNCHANGED << fd_, fdEventNotifier_, eventVars, controls_, controlInfo_, idList >>
    /\ UNCHANGED notV4l2

\* The caller appends an id to the vector of ids it wants to read
CallerAddId(id) ==
    /\ ctrlList = << >>
    /\ Len(idList) < MaxCtrls
    /\ idList' = Append(idList, id)
    /\ v4l2Call' = NoCall
    /\ v4l2Io' = << >>
    /\ UNCHANGED << fd_, fdEventNotifier_, eventVars, controls_, controlInfo_, ctrlList >>
    /\ UNCHANGED notV4l2

\* The caller empties its vector of ids
CallerClearIds ==
    /\ idList # << >>
    /\ idList' = << >>
    /\ v4l2Call' = NoCall
    /\ v4l2Io' = << >>
    /\ UNCHANGED << fd_, fdEventNotifier_, eventVars, controls_, controlInfo_, ctrlList >>
    /\ UNCHANGED notV4l2

\* getControls(idList).  On a closed device the ioctl fails with error_idx at
\* its initial 0; an open device asked for an id it does not have rejects
\* the batch while validating it, with error_idx set to the batch size.
GetControls(k, cur) ==
    /\ k <= Len(idList) + 1
    /\ fd_ = -1 => k = 0
    /\ LET r == getControls(idList, controls_, controlInfo_, k, cur)
       IN /\ (fd_ # -1 /\ r.io # << >> /\ namesUnknown(r.io[1].sent))
              => k = Len(idList)
          /\ v4l2Io' = r.io
          /\ v4l2Call' = [ op |-> "getControls", ret |-> r.ret,
                           log |-> r.log, ids |-> idList ]
    /\ UNCHANGED << fd_, fdEventNotifier_, eventVars, controls_, controlInfo_, ctrlList,
                    idList >>
    /\ UNCHANGED notV4l2

NextV4L2 ==
    \/ \E errno \in { 0, 2 } : Open(errno)
    \/ Close
    \/ \E id \in CallerIds : \E value \in ValuesFor(id) : CallerSet(id, value)
    \/ CallerClear
    \/ \E k \in -1..(MaxCtrls + 1) : SetControls(k)
    \/ \E id \in CallerIds : CallerAddId(id)
    \/ CallerClearIds
    \/ \E k \in -1..(MaxCtrls + 1) : \E cur \in { "def", "max" } :
            GetControls(k, cur)

SpecV4L2 == Init /\ [][NextV4L2]_vars

\* updateControlInfo(), the device answering each query as answers says; on a
\* closed device every query fails
UpdateControlInfo(answers) ==
    /\ fd_ = -1 => \A id \in DOMAIN controls_ : answers[id] = "fail"
    /\ LET ids == idsInOrder(DOMAIN controls_)
           r == updateControlInfo(ids, controls_, controlInfo_, answers)
       IN /\ controls_' = r.controls
          /\ controlInfo_' = r.controlInfo
          /\ v4l2Io' = [ i \in 1..Len(ids) |->
                           [ request |-> "VIDIOC_QUERY_EXT_CTRL", id |-> ids[i],
                             answer |-> answers[ids[i]] ] ]
          /\ v4l2Call' = [ op |-> "updateControlInfo", ret |-> 0,
                           before |-> controls_ ]
    /\ UNCHANGED << fd_, fdEventNotifier_, eventVars, ctrlList, idList >>
    /\ UNCHANGED notV4l2

\* The device refreshed while it is opened and closed
NextInfo ==
    \/ \E errno \in { 0, 2 } : Open(errno)
    \/ Close
    \/ \E answers \in [ DOMAIN controls_ -> QueryAnswers ] :
            UpdateControlInfo(answers)

SpecInfo == Init /\ [][NextInfo]_vars

(***************************************************************************)
(* V4L2Device: frame-start events                                          *)
(***************************************************************************)
\* What a call through the deleted notifier may do
Dangling == { "trap", "proceeds" }

\* EventNotifier::setEnabled(enable) through fdEventNotifier_
setEnabled(notifier, enable) ==
    IF notifier \in { "disabled", "enabled" }
    THEN IF enable THEN "enabled" ELSE "disabled"
    ELSE notifier

\* The device's frame-sync subscription after VIDIOC_SUBSCRIBE_EVENT
\* (enable) or VIDIOC_UNSUBSCRIBE_EVENT answered err
subscription(sub, enable, err) == IF err = 0 THEN enable ELSE sub

\* setFrameStartEnabled(enable): 0 at once when the flag already has the
\* value; else (un)subscribe; a failed subscribe is returned; else the
\* notifier is switched, the flag is stored and the ioctl's result returned.
\* err is the errno of the ioctl (9 on a closed descriptor), uaf what the
\* call through a deleted notifier does
SetFrameStartEnabled(enable, err, uaf) ==
    /\ Running
    /\ (fd_ = -1) <=> (err = 9)
    /\ IF frameStartEnabled_ = enable
       THEN /\ v4l2Call' = [ op |-> "setFrameStartEnabled", enable |-> enable,
                             ret |-> 0 ]
            /\ v4l2Io' = << >>
            /\ UNCHANGED << fdEventNotifier_, eventVars >>
       ELSE /\ v4l2Io' = << [ request |-> IF enable
                                          THEN "VIDIOC_SUBSCRIBE_EVENT"
                                          ELSE "VIDIOC_UNSUBSCRIBE_EVENT",
                              type |-> "V4L2_EVENT_FRAME_SYNC",
                              answer |-> err ] >>
            /\ subscribed' = subscription(subscribed, enable, err)
            /\ IF enable /\ err # 0
               THEN /\ v4l2Call' = [ op |-> "setFrameStartEnabled",
                                     enable |-> enable, ret |-> -err ]
                    /\ UNCHANGED << fdEventNotifier_, frameStartEnabled_ >>
               ELSE IF fdEventNotifier_ \notin { "disabled", "enabled" }
                       /\ uaf = "trap"
               THEN /\ v4l2Call' = [ op |-> "trap", enable |-> enable ]
                    /\ UNCHANGED << fdEventNotifier_, frameStartEnabled_ >>
               ELSE /\ fdEventNotifier_' = setEnabled(fdEventNotifier_, enable)
                    /\ frameStartEnabled_' = enable
                    /\ v4l2Call' = [ op |-> "setFrameStartEnabled",
                                     enable |-> enable, ret |-> -err ]
    /\ UNCHANGED << fd_, controls_, controlInfo_, ctrlList, idList >>
    /\ UNCHANGED notV4l2

\* What VIDIOC_DQEVENT may answer
Dequeued == { "fail", "V4L2_EVENT_FRAME_SYNC", "V4L2_EVENT_CTRL" }

\* An eventAvailable() that signals every event it dequeued
frameStart_any(dq, sequence) ==
    IF dq # "fail" THEN << sequence >> ELSE << >>

\* What eventAvailable() emits through the frameStart signal: the frame
\* sequence of a dequeued frame-sync event
frameStart(dq, sequence) ==
    IF dq = "V4L2_EVENT_FRAME_SYNC" THEN << sequence >> ELSE << >>

\* eventAvailable(notifier), the slot of the enabled notifier: dequeue one
\* event; on failure or on an event of another type disable the notifier;
\* else emit frameStart(frame_sequence). The device queues frame-sync events
\* only while subscribed
EventAvailable(dq, sequence) ==
    /\ Running
    /\ fdEventNotifier_ = "enabled"
    /\ dq = "V4L2_EVENT_FRAME_SYNC" => subscribed
    /\ v4l2Io' = << [ request |-> "VIDIOC_DQEVENT", answer |-> dq,
                      frame_sequence |-> sequence ] >>
    /\ v4l2Call' = [ op |-> "eventAvailable",
                     frameStart |-> frameStart(dq, sequence) ]
    /\ fdEventNotifier_' = IF dq = "V4L2_EVENT_FRAME_SYNC"
                           THEN fdEventNotifier_
                           ELSE setEnabled(fdEventNotifier_, FALSE)
    /\ UNCHANGED << fd_, eventVars, controls_, controlInfo_, ctrlList, idList >>
    /\ UNCHANGED notV4l2

NextEvt ==
    \/ \E errno \in { 0, 2 } : Open(errno)
    \/ \E fd \in { 3, 4 } : SetFd(fd)
    \/ Close
    \/ \E enable \in BOOLEAN : \E err \in { 0, 9, EINVAL } : \E uaf \in Dangling :
            SetFrameStartEnabled(enable, err, uaf)
    \/ \E dq \in Dequeued : \E sequence \in 0..MaxFrames :
            EventAvailable(dq, sequence)

SpecEvt == Init /\ [][NextEvt]_vars

(***************************************************************************)
(* Vimc pipeline: start, stop and queueRequestDevice                       *)
(***************************************************************************)
ENOENT == 2

\* start() that keeps the buffers when the stream does not start
start_keepsBuffers(dev, imported, ipa, streamOn) ==
    IF imported < 0
    THEN [ dev |-> dev, ret |-> imported, steps |-> << "importBuffers" >> ]
    ELSE IF ipa # 0
    THEN [ dev |-> dev, ret |-> ipa,
           steps |-> << "importBuffers", "ipa start", "releaseBuffers" >> ]
    ELSE IF streamOn < 0
    THEN [ dev |-> [ dev EXCEPT !.imported = TRUE ], ret |-> streamOn,
           steps |-> << "importBuffers", "ipa start", "streamOn",
                        "ipa stop" >> ]
    ELSE [ dev |-> [ imported |-> TRUE, ipaRunning |-> TRUE,
                     streaming |-> TRUE ],
           ret |-> 0,
           steps |-> << "importBuffers", "ipa start", "streamOn" >> ]

\* int PipelineHandlerVimc::start(): importBuffers(count), ipa_->start(),
\* streamOn(), given what each of the three returns when it is reached; a
\* step that fails acquires nothing
start(dev, imported, ipa, streamOn) ==
    IF imported < 0
    THEN [ dev |-> dev, ret |-> imported, steps |-> << "importBuffers" >> ]
    ELSE IF ipa # 0
    THEN [ dev |-> dev, ret |-> ipa,
           steps |-> << "importBuffers", "ipa start", "releaseBuffers" >> ]
    ELSE IF streamOn < 0
    THEN [ dev |-> dev, ret |-> streamOn,
           steps |-> << "importBuffers", "ipa start", "streamOn",
                        "ipa stop", "releaseBuffers" >> ]
    ELSE [ dev |-> [ imported |-> TRUE, ipaRunning |-> TRUE,
                     streaming |-> TRUE ],
           ret |-> 0,
           steps |-> << "importBuffers", "ipa start", "streamOn" >> ]

\* The camera starts a pipeline that is not running
VimcStart(imported, ipa, streamOn) ==
    /\ ~vimcDev.streaming
    /\ LET r == start(vimcDev, imported, ipa, streamOn)
       IN /\ vimcDev' = r.dev
          /\ vimcCall' = [ op |-> "start", ret |-> r.ret, steps |-> r.steps,
                           answers |-> << imported, ipa, streamOn >> ]
    /\ UNCHANGED << vimcQueued, vimcStatus, vimcMetadata, vimcNotified >>
    /\ UNCHANGED notVimc

\* void PipelineHandlerVimc::stop(): streamOff(), ipa_->stop(),
\* releaseBuffers(); the camera stops a pipeline that is running
VimcStop ==
    /\ vimcDev.streaming
    /\ vimcDev' = [ imported |-> FALSE, ipaRunning |-> FALSE,
                    streaming |-> FALSE ]
    /\ vimcCall' = [ op |-> "stop", ret |-> 0,
                     steps |-> << "streamOff", "ipa stop", "releaseBuffers" >> ]
    /\ UNCHANGED << vimcQueued, vimcStatus, vimcMetadata, vimcNotified >>
    /\ UNCHANGED notVimc

\* processControls() that hands on what setControls() returned
processControls_raw(ret) == ret

\* What processControls() returns for the result of sensor_->setControls()
processControls(ret) ==
    IF ret = 0 THEN 0 ELSE IF ret < 0 THEN ret ELSE -EINVAL

\* int PipelineHandlerVimc::queueRequestDevice(): -ENOENT for a request
\* without a buffer for the stream; else processControls(), the list it
\* built being ctrlList and the sensor answering k; else queueBuffer(), which
\* returns queued
VimcQueueRequestDevice(r, hasBuffer, k, queued) ==
    /\ vimcStatus[r] = "Pending"
    /\ idList = << >>
    /\ IF ~hasBuffer
       THEN /\ vimcCall' = [ op |-> "queueRequestDevice", request |-> r,
                             hasBuffer |-> FALSE, ret |-> -ENOENT,
                             steps |-> << >>, written |-> 0 ]
            /\ v4l2Call' = NoCall
            /\ v4l2Io' = << >>
            /\ UNCHANGED << ctrlList, vimcQueued, vimcStatus >>
       ELSE /\ k <= Len(ctrlList) + 1
            /\ fd_ = -1 => k = 0
            /\ (fd_ # -1 /\ namesReadOnly(ctrlList)) => k = Len(ctrlList)
            /\ LET res == setControls(ctrlList, controls_, k)
                   ret == processControls(res.ret)
               IN /\ ctrlList' = res.ctrls
                  /\ v4l2Io' = res.io
                  /\ v4l2Call' = [ op |-> "setControls", ret |-> res.ret,
                                   before |-> ctrlList ]
                  /\ IF ret < 0
                     THEN /\ vimcCall' = [ op |-> "queueRequestDevice",
                                           request |-> r, hasBuffer |-> TRUE,
                                           ret |-> ret,
                                           steps |-> << "setControls" >>,
                                           setControls |-> res.ret,
                                           written |-> Len(res.io) ]
                          /\ UNCHANGED << vimcQueued, vimcStatus >>
                     ELSE /\ vimcCall' = [ op |-> "queueRequestDevice",
                                           request |-> r, hasBuffer |-> TRUE,
                                           ret |-> IF queued < 0 THEN queued
                                                   ELSE 0,
                                           steps |-> << "setControls",
                                                        "queueBuffer" >>,
                                           setControls |-> res.ret,
                                           written |-> Len(res.io) ]
                          /\ IF queued < 0
                             THEN UNCHANGED << vimcQueued, vimcStatus >>
                             ELSE /\ vimcQueued' = vimcQueued \cup { r }
                                  /\ vimcStatus' = [ vimcStatus EXCEPT
                                                       ![r] = "Queued" ]
    /\ UNCHANGED << vimcMetadata, vimcNotified, vimcDev >>
    /\ UNCHANGED << fd_, fdEventNotifier_, eventVars, controls_, controlInfo_,
                    idList >>
    /\ UNCHANGED << framesVars, ipaVars >>

\* The camera starts and stops the pipeline while requests are queued and
\* complete
NextVimcRun ==
    \/ \E imported \in { -EINVAL, 0 } : \E ipa \in { -EINVAL, 0, 1 } :
            \E streamOn \in { -EINVAL, 0 } : VimcStart(imported, ipa, streamOn)
    \/ VimcStop
    \/ \E r \in LiveRequests : VimcQueueBuffer(r)
    \/ \E r \in LiveRequests, ts \in 1..MaxTimestamp : VimcBufferReady(r, ts)

SpecVimcRun == Init /\ [][NextVimcRun]_vars

\* The V4L2 controls processControls() writes hold one number each; the
\* sensor may have them or not
VimcCids ==
    { id \in CallerIds :
        id \in DOMAIN DevControls => "HAS_PAYLOAD" \notin DevControls[id].flags }

\* Requests are queued with the controls their ControlList holds, each
\* control with a value inside its range
NextVimcQueue ==
    \/ \E errno \in { 0, ENOENT } : Open(errno)
    \/ \E id \in VimcCids : CallerSet(id, Scalar(1))
    \/ CallerClear
    \/ \E r \in LiveRequests : \E hasBuffer \in BOOLEAN :
            \E k \in -1..(MaxCtrls + 1) : \E queued \in { -EINVAL, 0 } :
                VimcQueueRequestDevice(r, hasBuffer, k, queued)

SpecVimcQueue == Init /\ [][NextVimcQueue]_vars

(***************************************************************************)
(* IPARkISP1: the auto-exposure engine                                     *)
(***************************************************************************)
AeTarget == 60
AeFloor == 15
AeCadence == 3

\* Frame ids an event may carry
FrameIds == 0..MaxFrameId

\* ControlInfoMap of a sensor: the range of each control it has
SensorControls(emin, emax, gmin, gmax) ==
    [ c \in { "EXPOSURE", "ANALOGUE_GAIN" } |->
        IF c = "EXPOSURE" THEN [ min |-> emin, max |-> emax ]
        ELSE [ min |-> gmin, max |-> gmax ] ]

\* entityControls maps the pipeline may pass to configure(): none, a sensor
\* with both controls, a sensor lacking one of them, or controls of another
\* entity than the sensor
EntityControlsMaps ==
    { << >>,
      1 :> SensorControls(1, 4, 1, 4),
      0 :> SensorControls(1, 4, 1, 4),
      0 :> SensorControls(0, 3, 2, 4),
      0 :> Restrict(SensorControls(1, 4, 1, 4), { "EXPOSURE" }),
      0 :> Restrict(SensorControls(1, 4, 1, 4), { "ANALOGUE_GAIN" }) }

\* Brightness samples a statistics buffer may hold in a cell of exp_mean
SampleValues == { 15, 16, 57, 63, 120 }

\* rkisp1_stat_buffer: whether meas_type has RKISP1_CIF_ISP_STAT_AUTOEXP, and
\* the cells of params.ae.exp_mean.  The engine only adds the cells up, so
\* one ordering of each choice of samples is enough; without the measurement
\* the cells are not read
StatBuffers ==
    { b \in [ autoexp : BOOLEAN, exp_mean : [ 1..AeMeanCells -> SampleValues ] ] :
        /\ \A i \in 1..(AeMeanCells - 1) : b.exp_mean[i] <= b.exp_mean[i + 1]
        /\ ~b.autoexp => \A i \in 1..AeMeanCells : b.exp_mean[i] = AeFloor }

RECURSIVE Sum(_)
Sum(seq) == IF seq = << >> THEN 0 ELSE Head(seq) + Sum(Tail(seq))

RECURSIVE GCD(_, _)
GCD(a, b) == IF b = 0 THEN a ELSE GCD(b, a % b)

PowersOfTwo == { 2 ^ k : k \in 0..30 }

\* n / d is a binary fraction, which a double holds exactly
Dyadic(n, d) == d \div GCD(n, d) \in PowersOfTwo

\* A clamp without the upper bound
clamp_low(v, lo, hi) == IF v < lo THEN lo ELSE v

\* std::clamp(v, lo, hi)
clamp(v, lo, hi) == IF v < lo THEN lo ELSE IF hi < v THEN hi ELSE v

\* (uint64_t) of the double computed for num / den.  When a step of the
\* computation was rounded and the exact quotient is an integer, the double
\* may lie just below it: down tells whether it does
truncated(num, den, rounded, down) ==
    LET q == num \div den
    IN IF down /\ rounded /\ num % den = 0 /\ q > 0 THEN q - 1 ELSE q

\* The exp_mean cells the loop of updateStatistics() adds up
retained(exp_mean) == SelectSeq(exp_mean, LAMBDA m : m > AeFloor)

\* A convergence test with a tolerance of one tenth
converged_tenth(value) ==
    LET a == IF value > AeTarget THEN value - AeTarget ELSE AeTarget - value
    IN 10 * a <= value

\* fabs(factor - 1.0f) < 0.05f for factor = target / value.  0.05f is the
\* float 13421773 / 2^28, just above 1/20, so that
\*   |target - value| / value < 0.05f
\*     <=>  2^26 * (20 * |target - value| - value) < value
\*     <=>  20 * |target - value| <= value        (value < 2^26)
converged(value) ==
    LET a == IF value > AeTarget THEN value - AeTarget ELSE AeTarget - value
    IN 20 * a <= value

\* The actions the engine emits
ParamFilled(frame) == [ frame |-> frame, op |-> "ActionParamFilled" ]

\* void IPARkISP1::setControls(unsigned int frame)
V4L2Set(frame, exposure, gain) ==
    [ frame |-> frame, op |-> "ActionV4L2Set", exposure |-> exposure,
      gain |-> gain ]

\* metadataReady() that loses the frame id
Metadata_untagged(frame, aeState) ==
    [ frame |-> 0, op |-> "ActionMetadata",
      AeLocked |-> IF aeState = 0 THEN "unset"
                   ELSE IF aeState = 2 THEN "true" ELSE "false" ]

\* void IPARkISP1::metadataReady(unsigned int frame, unsigned int aeState)
Metadata(frame, aeState) ==
    [ frame |-> frame, op |-> "ActionMetadata",
      AeLocked |-> IF aeState = 0 THEN "unset"
                   ELSE IF aeState = 2 THEN "true" ELSE "false" ]

\* The ranges configure() stored
Limits ==
    [ minExposure |-> minExposure_, maxExposure |-> maxExposure_,
      minGain |-> minGain_, maxGain |-> maxGain_ ]

\* The exposure and gain update that scales by value / target
aeStep_inverted(value, e, g, lim, ulp) ==
    LET xnum == value * e * g
        xden == AeTarget * lim.minGain
        exposure == clamp(xnum \div xden, lim.minExposure, lim.maxExposure)
        gain == clamp((xnum * lim.minGain) \div (xden * exposure),
                      lim.minGain, lim.maxGain)
    IN [ exposure |-> exposure, gain |-> gain ]

\* Lines 439-451 of updateStatistics(), in exact arithmetic:
\*   exposure  = factor * exposure_ * gain_ / minGain_
\*   exposure_ = clamp((uint64_t)exposure, minExposure_, maxExposure_)
\*   exposure  = exposure / exposure_ * minGain_
\*   gain_     = clamp((uint64_t)exposure, minGain_, maxGain_)
aeStep(value, e, g, lim, ulp) ==
    LET rounded == ~Dyadic(AeTarget, value)
        xnum == AeTarget * e * g
        xden == value * lim.minGain
        exposure == clamp(truncated(xnum, xden, rounded, "exposure" \in ulp),
                          lim.minExposure, lim.maxExposure)
        ynum == xnum * lim.minGain
        yden == xden * exposure
        gain == clamp(truncated(ynum, yden,
                                rounded \/ ~Dyadic(xnum, xden * exposure),
                                "gain" \in ulp),
                      lim.minGain, lim.maxGain)
    IN [ exposure |-> exposure, gain |-> gain ]

\* The same lines when no cell was retained and value /= num, a division by
\* zero, did not trap: with a quotient of zero the factor is infinite and the
\* conversions saturate ("high"); with any other quotient the factor is next
\* to zero ("low")
aeStepUndefined(lim, ub) ==
    IF ub = "high"
    THEN [ exposure |-> lim.maxExposure, gain |-> lim.maxGain ]
    ELSE [ exposure |-> lim.minExposure, gain |-> lim.minGain ]

\* What a division by zero may do
Undefined == { "trap", "high", "low" }

\* A cadence that lets every frame through
onCadence_always(frame) == frame >= 0

\* frame % 3 == 0
onCadence(frame) == frame % AeCadence = 0

\* void IPARkISP1::updateStatistics(unsigned int frame,
\*                                  const rkisp1_stat_buffer *stats)
\* from exposure e and gain g: the settings it leaves and the actions it
\* emits, or a trap
updateStatistics(frame, stats, e, g, lim, ub, ulp) ==
    LET kept == retained(stats.exp_mean)
        num == Len(kept)
        value == IF num = 0 THEN 0 ELSE Sum(kept) \div num
        stay == [ exposure |-> e, gain |-> g ]
        step == IF ~onCadence(frame) THEN stay
                ELSE IF num = 0 THEN aeStepUndefined(lim, ub)
                ELSE aeStep(value, e, g, lim, ulp)
        aeState == IF num # 0 /\ converged(value) THEN 2 ELSE 1
    IN IF ~stats.autoexp
       THEN [ trap |-> FALSE, num |-> 0, value |-> 0, exposure |-> e,
              gain |-> g, actions |-> << Metadata(frame, 0) >> ]
       ELSE IF num = 0 /\ ub = "trap"
       THEN [ trap |-> TRUE, num |-> 0, value |-> 0, exposure |-> e,
              gain |-> g, actions |-> << >> ]
       ELSE [ trap |-> FALSE, num |-> num, value |-> value,
              exposure |-> step.exposure, gain |-> step.gain,
              actions |->
                  IF onCadence(frame)
                  THEN << V4L2Set(frame + 1, step.exposure, step.gain),
                          Metadata(frame, aeState) >>
                  ELSE << Metadata(frame, aeState) >> ]

(***************************************************************************)
(* IPARkISP1 operations                                                    *)
(***************************************************************************)
rangeVars == << ctrls_, minExposure_, maxExposure_, minGain_, maxGain_ >>

\* std::max<uint32_t>(v, 1)
atLeastOne(v) == IF v < 1 THEN 1 ELSE v

\* configure() that starts the exposure at the top of its range
configured_atMax(map) ==
    [ autoExposure |-> TRUE,
      minExposure |-> atLeastOne(map["EXPOSURE"].min),
      maxExposure |-> map["EXPOSURE"].max,
      exposure |-> map["EXPOSURE"].max,
      minGain |-> atLeastOne(map["ANALOGUE_GAIN"].min),
      maxGain |-> map["ANALOGUE_GAIN"].max,
      gain |-> atLeastOne(map["ANALOGUE_GAIN"].min) ]

\* Lines 310-318 of configure(): the members set from a sensor's exposure and
\* gain controls
configured(map) ==
    [ autoExposure |-> TRUE,
      minExposure |-> atLeastOne(map["EXPOSURE"].min),
      maxExposure |-> map["EXPOSURE"].max,
      exposure |-> atLeastOne(map["EXPOSURE"].min),
      minGain |-> atLeastOne(map["ANALOGUE_GAIN"].min),
      maxGain |-> map["ANALOGUE_GAIN"].max,
      gain |-> atLeastOne(map["ANALOGUE_GAIN"].min) ]

\* int IPARkISP1::configure(info, streamConfig, entityControls).  A map that
\* is not empty and has no entry 0 makes entityControls.at(0) throw
\* std::out_of_range before anything is assigned
IpaConfigure(entityControls) ==
    /\ ipaState # "dead"
    /\ IF DOMAIN entityControls = {}
       THEN /\ ipaCall' = [ op |-> "configure", ret |-> -EINVAL,
                            entityControls |-> entityControls ]
            /\ UNCHANGED << ipaState, rangeVars, autoExposure_, exposure_,
                            gain_ >>
       ELSE IF 0 \notin DOMAIN entityControls
       THEN /\ ipaCall' = [ op |-> "configure throws",
                            entityControls |-> entityControls ]
            /\ UNCHANGED << ipaState, rangeVars, autoExposure_, exposure_,
                            gain_ >>
       ELSE LET map == entityControls[0]
            IN /\ ctrls_' = map
               /\ IF "EXPOSURE" \notin DOMAIN map
                     \/ "ANALOGUE_GAIN" \notin DOMAIN map
                  THEN /\ ipaCall' = [ op |-> "configure", ret |-> -EINVAL,
                                       entityControls |-> entityControls ]
                       /\ UNCHANGED << ipaState, minExposure_, maxExposure_,
                                       minGain_, maxGain_, autoExposure_,
                                       exposure_, gain_ >>
                  ELSE /\ autoExposure_' = configured(map).autoExposure
                       /\ minExposure_' = configured(map).minExposure
                       /\ maxExposure_' = configured(map).maxExposure
                       /\ exposure_' = configured(map).exposure
                       /\ minGain_' = configured(map).minGain
                       /\ maxGain_' = configured(map).maxGain
                       /\ gain_' = configured(map).gain
                       /\ ipaState' = "configured"
                       /\ ipaCall' = [ op |-> "configure", ret |-> 0,
                                       entityControls |-> entityControls ]
    /\ ipaActions' = << >>
    /\ UNCHANGED << sceneVars, bufVars >>
    /\ UNCHANGED notIpa

\* int IPARkISP1::start(): setControls(0)
IpaStart ==
    /\ ipaState = "configured"
    /\ ipaActions' = << V4L2Set(0, exposure_, gain_) >>
    /\ ipaCall' = [ op |-> "start", ret |-> 0 ]
    /\ UNCHANGED << ipaState, rangeVars, autoExposure_, exposure_, gain_ >>
    /\ UNCHANGED << sceneVars, bufVars >>
    /\ UNCHANGED notIpa

(***************************************************************************)
(* The buffers the pipeline shares with the engine.  An IPABuffer is       *)
(* known by its id: the planes that come with an id are the same each time *)
(* the id is passed.  A pointer is the null pointer, MAP_FAILED or the     *)
(* address of a mapping; mmap() returns the lowest free address.           *)
(***************************************************************************)
BufferIds == 1..MaxBufferId
Addresses == 1..MaxMaps

NullPtr == [ kind |-> "nullptr", addr |-> 0 ]
MapFailed == [ kind |-> "MAP_FAILED", addr |-> 0 ]
Mapping(addr) == [ kind |-> "mapping", addr |-> addr ]

\* Addresses mmap() has handed out and munmap() has not taken back
Mapped(maps) == { m.addr : m \in maps }

\* The address the next mmap() returns
freeAddress(maps) ==
    CHOOSE a \in Addresses \ Mapped(maps) :
        \A b \in Addresses \ Mapped(maps) : a <= b

\* buffersMemory_[bufferId] points at memory
mapped(bufferId) ==
    /\ bufferId \in DOMAIN buffersMemory_
    /\ buffersMemory_[bufferId].kind = "mapping"

\* buffersMemory_[bufferId] as processEvent() evaluates it: operator[] adds a
\* null entry for an id the table does not hold
memoryLookedUp(bufferId) ==
    IF bufferId \in DOMAIN buffersMemory_ THEN buffersMemory_
    ELSE buffersMemory_ @@ (bufferId :> NullPtr)

\* What the engine has of its buffers
BufferTables ==
    [ buffers |-> buffers_, memory |-> buffersMemory_, maps |-> mmaps,
      fatal |-> FALSE ]

\* void IPARkISP1::mapBuffers(const std::vector<IPABuffer> &buffers), the
\* mmap() of entry failAt failing (0: none): emplace() keeps the FrameBuffer an
\* id already has, mmap() is called for every entry and its result replaces
\* the pointer the id had; MAP_FAILED is logged as Fatal, which ends the
\* process
RECURSIVE mapBuffers(_, _, _)
mapBuffers(buffers, failAt, t) ==
    IF buffers = << >> \/ t.fatal THEN t
    ELSE LET id == Head(buffers)
             fails == failAt = 1
             ptr == IF fails THEN MapFailed ELSE Mapping(freeAddress(t.maps))
         IN mapBuffers(Tail(buffers), failAt - 1,
                [ buffers |-> t.buffers \cup { id },
                  memory |-> (id :> ptr) @@ t.memory,
                  maps |-> IF fails THEN t.maps
                           ELSE t.maps \cup { [ addr |-> ptr.addr, id |-> id ] },
                  fatal |-> fails ])

\* munmap(ptr, length): a pointer that is no mapping's address unmaps nothing
munmap(maps, ptr) == { m \in maps : m.addr # ptr.addr \/ ptr.kind # "mapping" }

\* void IPARkISP1::unmapBuffers(const std::vector<unsigned int> &ids)
RECURSIVE unmapBuffers(_, _)
unmapBuffers(ids, t) ==
    IF ids = << >> THEN t
    ELSE LET id == Head(ids)
             memory == IF id \in DOMAIN t.memory THEN t.memory
                       ELSE t.memory @@ (id :> NullPtr)
         IN IF id \notin t.buffers THEN unmapBuffers(Tail(ids), t)
            ELSE unmapBuffers(Tail(ids),
                    [ buffers |-> t.buffers \ { id },
                      memory |-> [ i \in DOMAIN memory \ { id } |-> memory[i] ],
                      maps |-> munmap(t.maps, memory[id]),
                      fatal |-> FALSE ])

\* Lists of buffers or of ids the pipeline passes in one call
BufferLists ==
    { << >> } \cup { << a >> : a \in BufferIds }
        \cup { << a, b >> : a \in BufferIds, b \in BufferIds }

IpaMapBuffers(buffers, failAt) ==
    /\ ipaState # "dead"
    /\ failAt <= Len(buffers)
    /\ Cardinality(mmaps) + Len(buffers) <= MaxMaps
    /\ \E t \in { mapBuffers(buffers, failAt, BufferTables) } :
          /\ buffers_' = t.buffers
          /\ buffersMemory_' = t.memory
          /\ mmaps' = t.maps
          /\ ipaState' = IF t.fatal THEN "dead" ELSE ipaState
    /\ ipaActions' = << >>
    /\ ipaCall' = [ op |-> "mapBuffers", buffers |-> buffers,
                    failAt |-> failAt, before |-> BufferTables ]
    /\ UNCHANGED << rangeVars, autoExposure_, exposure_, gain_ >>
    /\ UNCHANGED sceneVars
    /\ UNCHANGED notIpa

IpaUnmapBuffers(ids) ==
    /\ ipaState # "dead"
    /\ \E t \in { unmapBuffers(ids, BufferTables) } :
          /\ buffers_' = t.buffers
          /\ buffersMemory_' = t.memory
          /\ mmaps' = t.maps
    /\ ipaActions' = << >>
    /\ ipaCall' = [ op |-> "unmapBuffers", ids |-> ids,
                    before |-> BufferTables ]
    /\ UNCHANGED << ipaState, rangeVars, autoExposure_, exposure_, gain_ >>
    /\ UNCHANGED sceneVars
    /\ UNCHANGED notIpa

\* What writing through or reading a null pointer may do
NullDeref == { "trap", "proceeds" }

\* processEvent(EventQueueRequest): queueRequest(frame, params, controls),
\* the request's controls holding AeEnable ("true", "false") or not
\* ("absent").  params is buffersMemory_[bufferId]; for an id without memory
\* it is null and memset(params, ...) is undefined
IpaQueueRequest(frame, bufferId, ae, nul) ==
    /\ ipaState = "configured"
    /\ buffersMemory_' = memoryLookedUp(bufferId)
    /\ IF ~mapped(bufferId) /\ nul = "trap"
       THEN /\ ipaState' = "dead"
            /\ ipaActions' = << >>
            /\ UNCHANGED autoExposure_
       ELSE /\ ipaState' = ipaState
            /\ autoExposure_' = IF ae = "absent" THEN autoExposure_
                                ELSE ae = "true"
            /\ ipaActions' = << ParamFilled(frame) >>
    /\ ipaCall' = [ op |-> "EventQueueRequest", frame |-> frame,
                    bufferId |-> bufferId, ae |-> ae,
                    module_ens |-> IF ae = "true" THEN { "AEC" } ELSE { },
                    module_en_update |->
                        IF ae = "absent" THEN { } ELSE { "AEC" } ]
    /\ UNCHANGED << rangeVars, exposure_, gain_, buffers_, mmaps >>
    /\ UNCHANGED sceneVars
    /\ UNCHANGED notIpa

\* What the engine does with the statistics of a frame
StatBufferReady(frame, bufferId, stats, ub, ulp) ==
    /\ ipaState = "configured"
    /\ \E r \in { updateStatistics(frame, stats, exposure_, gain_, Limits, ub,
                                  ulp) } :
          /\ ipaState' = IF r.trap THEN "dead" ELSE ipaState
          /\ exposure_' = r.exposure
          /\ gain_' = r.gain
          /\ ipaActions' = r.actions
          /\ ipaCall' = [ op |-> "EventSignalStatBuffer", frame |-> frame,
                          bufferId |-> bufferId, stats |-> stats,
                          exposure |-> exposure_, gain |-> gain_ ]
    /\ UNCHANGED << rangeVars, autoExposure_ >>
    /\ UNCHANGED notIpa

\* The outcomes of the undefined steps that a statistics buffer leaves open
UndefinedFor(stats) ==
    IF stats.autoexp /\ retained(stats.exp_mean) = << >>
    THEN Undefined ELSE { "trap" }

\* The conversions whose double operand may lie just below an integer, as
\* far as that changes what the engine computes from its current settings
RoundingsFor(frame, stats) ==
    IF /\ ipaState = "configured"
       /\ stats.autoexp
       /\ retained(stats.exp_mean) # << >>
       /\ onCadence(frame)
    THEN LET value == Sum(retained(stats.exp_mean))
                          \div Len(retained(stats.exp_mean))
         IN { ulp \in SUBSET { "exposure", "gain" } :
                \/ ulp = { }
                \/ aeStep(value, exposure_, gain_, Limits, ulp)
                       # aeStep(value, exposure_, gain_, Limits, { }) }
    ELSE { { } }

\* processEvent(EventSignalStatBuffer): updateStatistics(frame, stats), stats
\* being what buffersMemory_[bufferId] points at; for an id without memory
\* it is null and reading through it is undefined: the read traps, or it
\* proceeds with whatever it finds
IpaStatBuffer(frame, bufferId, stats, nul, ub, ulp) ==
    /\ ipaState = "configured"
    /\ buffersMemory_' = memoryLookedUp(bufferId)
    /\ IF ~mapped(bufferId) /\ nul = "trap"
       THEN /\ ipaState' = "dead"
            /\ ipaActions' = << >>
            /\ ipaCall' = [ op |-> "EventSignalStatBuffer", frame |-> frame,
                            bufferId |-> bufferId, stats |-> stats,
                            exposure |-> exposure_, gain |-> gain_ ]
            /\ UNCHANGED << rangeVars, autoExposure_, exposure_, gain_ >>
            /\ UNCHANGED notIpa
       ELSE StatBufferReady(frame, bufferId, stats, ub, ulp)
    /\ UNCHANGED << buffers_, mmaps >>
    /\ UNCHANGED sceneVars

\* processEvent() with any other event.op
IpaUnknownEvent(frame) ==
    /\ ipaState = "configured"
    /\ ipaActions' = << >>
    /\ ipaCall' = [ op |-> "EventUnknown", frame |-> frame ]
    /\ UNCHANGED << ipaState, rangeVars, autoExposure_, exposure_, gain_ >>
    /\ UNCHANGED << sceneVars, bufVars >>
    /\ UNCHANGED notIpa

\* The buffer the pipeline hands to the engine in SpecIpa and LiveAe
TheBuffer == CHOOSE id \in BufferIds : \A other \in BufferIds : id <= other

\* The pipeline maps the buffer once and names it in every event
NextIpa ==
    \/ \E entityControls \in EntityControlsMaps : IpaConfigure(entityControls)
    \/ buffers_ = {} /\ IpaMapBuffers(<< TheBuffer >>, 0)
    \/ IpaStart
    \/ \E frame \in FrameIds : \E ae \in { "absent", "true", "false" } :
            mapped(TheBuffer) /\ IpaQueueRequest(frame, TheBuffer, ae, "trap")
    \/ \E frame \in FrameIds : \E stats \in StatBuffers :
            \E ub \in UndefinedFor(stats) : \E ulp \in RoundingsFor(frame, stats) :
                /\ mapped(TheBuffer)
                /\ IpaStatBuffer(frame, TheBuffer, stats, "trap", ub, ulp)
    \/ \E frame \in FrameIds : IpaUnknownEvent(frame)

SpecIpa == Init /\ [][NextIpa]_vars

(***************************************************************************)
(* The engine's buffer tables.  The pipeline maps and unmaps any buffers   *)
(* and names any buffer in its events; its statistics carry no exposure    *)
(* measurement, so that the sensor settings stay as configure() left them. *)
(***************************************************************************)
\* What the null pointer of a buffer without memory leaves open
NullFor(bufferId) == IF mapped(bufferId) THEN { "trap" } ELSE NullDeref

NextBuf ==
    \/ \E entityControls \in EntityControlsMaps : IpaConfigure(entityControls)
    \/ \E buffers \in BufferLists : \E failAt \in 0..Len(buffers) :
            IpaMapBuffers(buffers, failAt)
    \/ \E ids \in BufferLists : IpaUnmapBuffers(ids)
    \/ \E bufferId \in BufferIds : \E nul \in NullFor(bufferId) :
            IpaQueueRequest(0, bufferId, "absent", nul)
    \/ \E bufferId \in BufferIds : \E nul \in NullFor(bufferId) :
            \E stats \in { b \in StatBuffers : ~b.autoexp } :
                IpaStatBuffer(0, bufferId, stats, nul, "trap", { })
    \/ IpaUnknownEvent(0)

SpecBuf == Init /\ [][NextBuf]_vars

(***************************************************************************)
(* The engine in a closed loop with a scene                                *)
(*                                                                         *)
(* The sensor looks at a scene of constant light: every cell of exp_mean   *)
(* measures the scene's brightness at exposure 1 and minimum gain, scaled  *)
(* by exposure_ * gain_ / minGain_ (the total gain updateStatistics()      *)
(* works with, lines 444-450).  The settings take effect on the next      *)
(* frame.  The scenes are dim: the loop starts at the lowest settings,     *)
(* below the target, and approaches it from below.                         *)
(***************************************************************************)
\* Scene brightnesses at exposure 1 and minimum gain, all above the floor
Scenes == (AeFloor + 1)..MaxScene

\* What a cell measures of scene s at exposure e and gain g
SceneMean(s, e, g, minGain) == (s * e * g) \div minGain

\* The statistics buffer of the next frame of the scene
SceneStats ==
    [ autoexp |-> TRUE,
      exp_mean |-> [ i \in 1..AeMeanCells |->
                       IF ipaState = "configured"
                       THEN SceneMean(scene, exposure_, gain_, minGain_)
                       ELSE AeFloor ] ]

\* The camera is pointed at a scene before it is configured
SceneSet(s) ==
    /\ ipaState = "constructed"
    /\ scene = 0
    /\ scene' = s
    /\ UNCHANGED << aeFrame, engineVars, bufVars >>
    /\ UNCHANGED notIpa

\* configure(), once
SceneConfigure(entityControls) ==
    /\ ipaState = "constructed"
    /\ scene # 0
    /\ IpaConfigure(entityControls)

\* The statistics of frame aeFrame reach the engine; frame ids run through
\* FrameIds over and over
SceneStat(ulp) ==
    /\ scene # 0
    /\ mapped(TheBuffer)
    /\ StatBufferReady(aeFrame, TheBuffer, SceneStats, "trap", ulp)
    /\ aeFrame' = IF aeFrame = MaxFrameId THEN 0 ELSE aeFrame + 1
    /\ scene' = scene
    /\ UNCHANGED bufVars

SceneFrame == \E ulp \in RoundingsFor(aeFrame, SceneStats) : SceneStat(ulp)

NextAe ==
    \/ \E s \in Scenes : SceneSet(s)
    \/ buffers_ = {} /\ ipaState = "constructed" /\ IpaMapBuffers(<< TheBuffer >>, 0)
    \/ \E entityControls \in EntityControlsMaps :
            SceneConfigure(entityControls)
    \/ SceneFrame

\* The pipeline keeps delivering statistics while the camera runs
LiveAe == Init /\ [][NextAe]_vars /\ WF_vars(SceneFrame)

(***************************************************************************)
(* Properties                                                              *)
(***************************************************************************)
FrameOf(r) == { f \in finalLog : f.request = r }

\* C1: every request gets its request-completed notification exactly once and
\* its buffer-completed notification exactly once per buffer, whatever the
\* arrival order of the sub-events; a frame is never finalized twice, also
\* not by a sub-event that arrives late or again.
C1_ExactlyOnce ==
    /\ \A r \in Requests :
        /\ notified[RequestCompleted(r)] <= 1
        /\ notified[BufferCompleted(r, RawBuf(r))] <= 1
        /\ reqStatus[r] = "Completed" <=> notified[RequestCompleted(r)] = 1
        /\ reqStatus[r] = "Completed" =>
               notified[BufferCompleted(r, RawBuf(r))] = 1
    /\ \A f, g \in finalLog : f.id = g.id => f = g
    /\ \A f, g \in finalLog : f.request = g.request => f = g

\* A sub-event arrived for a frame that was already finalized, and was dropped
C1_Witness ==
    /\ lastResult = Outcome("event", "NotFound")
    /\ \E r \in Requests : /\ reqStatus[r] = "Completed"
                           /\ notified[RequestCompleted(r)] = 1
    /\ DOMAIN frameInfo_ # {}

\* C2: a frame is finalized (request Completed, record removed) only if its
\* raw buffer completed and its parameter-dequeued and metadata-ready
\* sub-events were both handled, whatever the order and interleaving.
C2_FinalizedOnlyWhenAllThree ==
    /\ \A f \in finalLog :
        /\ f.request \in rawDone
        /\ { << f.id, "raw" >>, << f.id, "param" >>, << f.id, "meta" >> }
               \subseteq delivered
        /\ reqStatus[f.request] = "Completed"
        /\ f.id \notin DOMAIN frameInfo_
    /\ \A r \in Requests : reqStatus[r] = "Completed" => FrameOf(r) # {}
    /\ \A id \in DOMAIN frameInfo_ :
        reqStatus[frameInfo_[id].request] = "Queued"

\* One frame is finalized while another one is in flight with only part of
\* its sub-events seen
C2_Witness ==
    /\ finalLog # {}
    /\ \E id \in DOMAIN frameInfo_ :
        /\ frameInfo_[id].paramDequeued
        /\ ~frameInfo_[id].metadataProcessed
        /\ \E f \in finalLog : f.id > id

Borrowers(field, h) == { i \in DOMAIN frameInfo_ : frameInfo_[i][field] = h }

\* C3: every parameter and statistics handle is either once in its pool or
\* borrowed by exactly one in-flight record; the pools hold nothing else, and
\* with no frame in flight they hold exactly the handles given to init().
C3_HandleInOnePlace ==
    /\ \A h \in seeded[1] :
        Count(availableParamBuffers_, h)
            + Cardinality(Borrowers("paramBuffer", h)) = 1
    /\ \A h \in seeded[2] :
        Count(availableStatBuffers_, h)
            + Cardinality(Borrowers("statBuffer", h)) = 1
    /\ Range(availableParamBuffers_) \subseteq seeded[1]
    /\ Range(availableStatBuffers_) \subseteq seeded[2]
    /\ \A i \in DOMAIN frameInfo_ :
        /\ frameInfo_[i].paramBuffer \in seeded[1]
        /\ frameInfo_[i].statBuffer \in seeded[2]
    /\ DOMAIN frameInfo_ = {} =>
        /\ Range(availableParamBuffers_) = seeded[1]
        /\ Len(availableParamBuffers_) = Cardinality(seeded[1])
        /\ Range(availableStatBuffers_) = seeded[2]
        /\ Len(availableStatBuffers_) = Cardinality(seeded[2])

\* A removed frame's buffers are back in the pools while another frame holds
\* its own, and a second removal of the same record has been attempted
C3_Witness ==
    /\ lastResult = Outcome("remove", "LogicError")
    /\ DOMAIN frameInfo_ # {}
    /\ \E info \in issued :
        /\ info.id \notin DOMAIN frameInfo_
        /\ info.paramBuffer \in Range(availableParamBuffers_)
        /\ info.statBuffer \in Range(availableStatBuffers_)

\* C4: tryComplete returns true exactly when the raw buffer has completed and
\* paramDequeued and metadataProcessed are both set.
C4_TryCompleteIff ==
    lastTry # NoTry =>
        (lastTry.ret <=> (lastTry.raw /\ lastTry.param /\ lastTry.meta))

\* tryComplete was called with all three conditions true
C4_Witness ==
    /\ lastTry # NoTry
    /\ lastTry.raw /\ lastTry.param /\ lastTry.meta
    /\ lastTry.ret

\* C5: create() with the parameter pool or the statistics pool empty reports
\* ResourceExhausted and changes neither pool, nor the records, nor the ids.
C5_ExhaustedCreateLeavesState ==
    [][ (lastResult'.op = "create"
         /\ createFails(availableParamBuffers_, availableStatBuffers_))
        => /\ lastResult'.result = "ResourceExhausted"
           /\ UNCHANGED << availableParamBuffers_, availableStatBuffers_,
                           frameInfo_, nextId, issued, reqStatus >> ]_vars

\* create() was refused with only the parameter pool empty
C5_Witness ==
    /\ lastResult = Outcome("create", "ResourceExhausted")
    /\ availableParamBuffers_ = << >>
    /\ availableStatBuffers_ # << >>

\* The raw buffer of r completed with an error and its frame is still open
ErrorOpen(r) ==
    /\ r \in reqError
    /\ reqStatus[r] = "Queued"
    /\ \E id \in DOMAIN frameInfo_ : frameInfo_[id].request = r

ErrorCompleted(r) ==
    /\ reqStatus[r] = "Completed"
    /\ \E f \in FrameOf(r) :
        /\ f.error
        /\ f.id \notin DOMAIN frameInfo_
        /\ f.paramBuffer \in Range(availableParamBuffers_)
        /\ f.statBuffer \in Range(availableStatBuffers_)

\* C6: once the raw buffer of a frame has completed with an error, the frame
\* is eventually finalized with an error status, its record removed and its
\* buffers back in the pools (the other two sub-events being delivered).
C6_ErrorFrameCompletes ==
    \A r \in LiveRequests : ErrorOpen(r) ~> ErrorCompleted(r)

\* A frame whose raw buffer failed has just been finalized by a later
\* sub-event, with an error status and its buffers back in the pools
C6_Witness ==
    \E r \in Requests :
        /\ r \in reqError
        /\ ErrorCompleted(r)
        /\ lastResult = Outcome("event", "Finalized")
        /\ \E f \in FrameOf(r) : lastTry.id = f.id

\* C7: in the camera's notification order, the buffer-completed notification
\* of each buffer of a request comes before the request-completed
\* notification of that request.
C7_BufferBeforeRequest ==
    \A j \in 1..Len(vimcNotified) : \A r \in Requests :
        vimcNotified[j] = RequestCompleted(r) =>
            /\ \E i \in 1..(j - 1) :
                   vimcNotified[i] = BufferCompleted(r, VimcBuf(r))
            /\ \A i \in (j + 1)..Len(vimcNotified) :
                   vimcNotified[i] # BufferCompleted(r, VimcBuf(r))

\* Two requests have completed, request 2 before request 1
C7_Witness ==
    /\ Len(vimcNotified) >= 4
    /\ vimcNotified[2] = RequestCompleted(2)
    /\ vimcNotified[4] = RequestCompleted(1)

\* The last call was a setControls() that reached the device
SetReachedDevice ==
    /\ v4l2Call.op = "setControls"
    /\ v4l2Io # << >>

\* ... and the device rejected the batch at index k, 0 < k < n
PartialFailure ==
    /\ SetReachedDevice
    /\ v4l2Io[1].ret # 0
    /\ v4l2Io[1].error_idx > 0
    /\ v4l2Io[1].error_idx < Len(v4l2Call.before)

\* C8: when the device rejects the batch at index k, 0 < k < n, setControls
\* returns k, the k entries below index k hold the values the device applied
\* and the entries from index k on hold what they held before the call.
C8_PartialFailurePrefix ==
    PartialFailure =>
        LET k == v4l2Io[1].error_idx
            before == v4l2Call.before
        IN /\ v4l2Call.ret = k
           /\ Len(ctrlList) = Len(before)
           /\ \A i \in 1..k :
                /\ ctrlList[i].id = before[i].id
                /\ ctrlList[i].value.v = v4l2Io[1].applied[i]
           /\ \A i \in (k + 1)..Len(before) : ctrlList[i] = before[i]

\* A batch of three rejected at index 2: the entry just below it was clamped
\* by the device, the rejected entry still holds its out-of-range value
C8_Witness ==
    /\ PartialFailure
    /\ Len(v4l2Call.before) = 3
    /\ v4l2Io[1].error_idx = 2
    /\ v4l2Call.before[2].value.v = 5
    /\ ctrlList[2].value.v < 5
    /\ ctrlList[3].value.v = 5

\* C9: setControls on a list naming an id that is not among the device's
\* controls returns -EINVAL, issues no ioctl and leaves the list as it was,
\* wherever the id sits in the list.
C9_UnknownIdRejected ==
    (/\ v4l2Call.op = "setControls"
     /\ \E i \in 1..Len(v4l2Call.before) :
            v4l2Call.before[i].id \notin DOMAIN controls_)
    => /\ v4l2Call.ret = -EINVAL
       /\ v4l2Io = << >>
       /\ ctrlList = v4l2Call.before

\* On an open device, the id the device does not have comes last in a list
\* whose first entry is a known control with an out-of-range value
C9_Witness ==
    /\ v4l2Call.op = "setControls"
    /\ fd_ # -1
    /\ Len(v4l2Call.before) = 3
    /\ v4l2Call.before[3].id = 6
    /\ v4l2Call.before[1].id \in DOMAIN controls_
    /\ v4l2Call.before[1].value.v = 5
    /\ v4l2Call.ret = -EINVAL

\* C10: when the device accepts the whole batch, setControls returns 0 and
\* every entry holds the value the device applied; if the device applied the
\* requested values unchanged, the list equals the requested one.
C10_SuccessUpdatesAll ==
    (SetReachedDevice /\ v4l2Io[1].ret = 0) =>
        LET before == v4l2Call.before
        IN /\ v4l2Call.ret = 0
           /\ Len(ctrlList) = Len(before)
           /\ \A i \in 1..Len(before) :
                /\ ctrlList[i].id = before[i].id
                /\ ctrlList[i].value.arr = before[i].value.arr
                /\ ctrlList[i].value.v = v4l2Io[1].applied[i]
           /\ (\A i \in 1..Len(before) :
                   v4l2Io[1].applied[i] = before[i].value.v)
               => ctrlList = before

\* An accepted batch of three in which the device clamped the 64-bit control
\* and left another entry as requested
C10_Witness ==
    /\ SetReachedDevice
    /\ v4l2Io[1].ret = 0
    /\ v4l2Call.ret = 0
    /\ Len(ctrlList) = 3
    /\ \E i \in 1..3 : /\ ctrlList[i].id = 2
                       /\ v4l2Call.before[i].value.v = 5
                       /\ ctrlList[i].value.v = 3
    /\ \E i \in 1..3 : ctrlList[i] = v4l2Call.before[i]

\* The device failed the batch without naming a control: error_idx is 0 or is
\* not below the batch size
GenericFailure ==
    /\ SetReachedDevice
    /\ v4l2Io[1].ret # 0
    /\ (v4l2Io[1].error_idx = 0
        \/ v4l2Io[1].error_idx >= Len(v4l2Call.before))

\* C11: when the device fails the batch with error_idx 0 or with an error_idx
\* at or above the number of controls sent, setControls returns -EINVAL and
\* every entry of the list is what it was before the call.
C11_GenericFailureUntouched ==
    GenericFailure =>
        /\ v4l2Call.ret = -EINVAL
        /\ ctrlList = v4l2Call.before

\* An open device fails a batch of two past its end; the first entry still
\* holds the out-of-range value the caller stored
C11_Witness ==
    /\ GenericFailure
    /\ fd_ # -1
    /\ Len(v4l2Call.before) = 2
    /\ v4l2Io[1].error_idx > 2
    /\ ctrlList[1].value.v = 5
    /\ v4l2Call.ret = -EINVAL

InvalidId(id) ==
    \/ id \notin DOMAIN DevControls
    \/ "DISABLED" \in DevControls[id].flags

\* C13: getControls with an id that does not exist on the device or is
\* disabled issues no ioctl and returns the empty list, wherever the id sits
\* in the vector of ids.
C13_InvalidIdReadsNothing ==
    (/\ v4l2Call.op = "getControls"
     /\ \E i \in 1..Len(v4l2Call.ids) : InvalidId(v4l2Call.ids[i]))
    => /\ v4l2Io = << >>
       /\ v4l2Call.ret = << >>

\* On an open device, three ids of which the last is the disabled control and
\* the first two are controls the device would have read
C13_Witness ==
    /\ v4l2Call.op = "getControls"
    /\ fd_ # -1
    /\ Len(v4l2Call.ids) = 3
    /\ v4l2Call.ids[1] \in DOMAIN controls_
    /\ v4l2Call.ids[2] \in DOMAIN controls_
    /\ v4l2Call.ids[3] = 4
    /\ v4l2Call.ret = << >>
    /\ v4l2Io = << >>

\* The last call was a getControls() that the device failed at index k,
\* 0 < k < n, n being the number of ids requested
PartialReadFailure ==
    /\ v4l2Call.op = "getControls"
    /\ v4l2Io # << >>
    /\ v4l2Io[1].ret # 0
    /\ v4l2Io[1].error_idx > 0
    /\ v4l2Io[1].error_idx < Len(v4l2Call.ids)

DistinctIds ==
    \A i, j \in 1..Len(v4l2Call.ids) :
        v4l2Call.ids[i] = v4l2Call.ids[j] => i = j

C15_RefreshSkipsFailures ==
    v4l2Call.op = "updateControlInfo" =>
        LET before == v4l2Call.before
        IN /\ DOMAIN controls_ = DOMAIN before
           /\ { v4l2Io[i].id : i \in 1..Len(v4l2Io) } = DOMAIN before
           /\ Len(v4l2Io) = Cardinality(DOMAIN before)
           /\ \A i \in 1..Len(v4l2Io) :
                LET id == v4l2Io[i].id
                    reported == DevQuery(id, v4l2Io[i].answer)
                IN /\ controls_[id].type = before[id].type
                   /\ IF v4l2Io[i].answer = "fail"
                      THEN controls_[id] = before[id]
                      ELSE /\ controls_[id].min = reported.minimum
                           /\ controls_[id].max = reported.maximum
                           /\ controls_[id].def = reported.default_value

\* A refresh in which the query of control 1 failed and the query of a later
\* control reported a changed range
C15_Witness ==
    /\ v4l2Call.op = "updateControlInfo"
    /\ Len(v4l2Io) >= 2
    /\ v4l2Io[1].id = 1
    /\ v4l2Io[1].answer = "fail"
    /\ controls_[1] = v4l2Call.before[1]
    /\ \E i \in 2..Len(v4l2Io) :
            /\ v4l2Io[i].answer = "changed"
            /\ controls_[v4l2Io[i].id] # v4l2Call.before[v4l2Io[i].id]

\* The last call was processEvent() with an event the engine knows
EventHandled ==
    ipaCall.op \in { "EventSignalStatBuffer", "EventQueueRequest" }

\* The actions of kind op among those the last call emitted
Emitted(op) ==
    { i \in 1..Len(ipaActions) : ipaActions[i].op = op }

\* C16 as stated: every action emitted while handling an event for frame f is
\* tagged with frame id f.
C16_ActionsTaggedWithFrame ==
    EventHandled =>
        \A i \in 1..Len(ipaActions) : ipaActions[i].frame = ipaCall.frame

\* C16, amended: of the actions emitted while handling an event for frame f,
\* parameters-filled and metadata-ready are tagged with f and
\* controls-to-apply is tagged with f + 1.
C16_ActionsTaggedByKind ==
    EventHandled =>
        \A i \in 1..Len(ipaActions) :
            ipaActions[i].frame =
                IF ipaActions[i].op = "ActionV4L2Set"
                THEN ipaCall.frame + 1 ELSE ipaCall.frame

\* The statistics of frame 3 made the engine emit controls for frame 4 and
\* metadata for frame 3
C16_Witness ==
    /\ ipaCall.op = "EventSignalStatBuffer"
    /\ ipaCall.frame = 3
    /\ Len(ipaActions) = 2
    /\ ipaActions[1].op = "ActionV4L2Set"
    /\ ipaActions[1].frame = 4
    /\ ipaActions[2].op = "ActionMetadata"
    /\ ipaActions[2].frame = 3

\* The cells above the noise floor, their number and their integer mean
BrightCells(exp_mean) == { i \in DOMAIN exp_mean : exp_mean[i] > AeFloor }

RECURSIVE CellSum(_, _)
CellSum(exp_mean, cells) ==
    IF cells = {} THEN 0
    ELSE LET i == CHOOSE c \in cells : TRUE
         IN exp_mean[i] + CellSum(exp_mean, cells \ { i })

CellMean(exp_mean) ==
    CellSum(exp_mean, BrightCells(exp_mean))
        \div Cardinality(BrightCells(exp_mean))

\* The last call handled statistics that carry an auto-exposure measurement
\* with at least one cell above the noise floor
AeMeasured ==
    /\ ipaCall.op = "EventSignalStatBuffer"
    /\ ipaCall.stats.autoexp
    /\ BrightCells(ipaCall.stats.exp_mean) # {}

\* |target / mean - 1| < 1/20, in integers
WithinTolerance(mean) ==
    LET a == IF mean > AeTarget THEN mean - AeTarget ELSE AeTarget - mean
    IN 20 * a < mean

\* C17: for statistics carrying an auto-exposure measurement, the engine emits
\* one metadata-ready action, whose AeLocked is true if |factor - 1| < 0.05
\* and false otherwise, factor being 60 over the integer mean of the cells
\* above the noise floor.
C17_LockedIffWithinTolerance ==
    AeMeasured =>
        /\ Cardinality(Emitted("ActionMetadata")) = 1
        /\ \A i \in Emitted("ActionMetadata") :
              ipaActions[i].AeLocked =
                  IF WithinTolerance(CellMean(ipaCall.stats.exp_mean))
                  THEN "true" ELSE "false"

\* One cell at the noise floor is left out and the other, at 63, gives a
\* factor within the tolerance: the metadata says locked
C17_Witness ==
    /\ AeMeasured
    /\ ipaCall.stats.exp_mean = << 15, 63 >>
    /\ \E i \in Emitted("ActionMetadata") : ipaActions[i].AeLocked = "true"

\* C18: a statistics event for a frame whose id is not a multiple of 3 leaves
\* exposure and gain as they were and emits no controls-to-apply action.
C18_OnlyOnCadence ==
    (/\ ipaCall.op = "EventSignalStatBuffer"
     /\ ipaCall.frame % 3 # 0)
    => /\ exposure_ = ipaCall.exposure
       /\ gain_ = ipaCall.gain
       /\ Emitted("ActionV4L2Set") = {}

\* Statistics of frame 2 with a mean far below the target, met at minimum
\* exposure with room above it: only the metadata is emitted
C18_Witness ==
    /\ AeMeasured
    /\ ipaCall.frame = 2
    /\ CellMean(ipaCall.stats.exp_mean) = 16
    /\ exposure_ = minExposure_
    /\ exposure_ < maxExposure_
    /\ Len(ipaActions) = 1
    /\ ipaActions[1].op = "ActionMetadata"

\* C19: with a brightness mean of 120 against the target of 60 the factor is
\* one half: on the cadence the exposure becomes the half of exposure times
\* relative gain, clamped to its range, it is never above the exposure before
\* the step and stays at the minimum when it was there, and the metadata
\* reports the state as not converged.
C19_BrightSceneLowersExposure ==
    (AeMeasured /\ CellMean(ipaCall.stats.exp_mean) = 120) =>
        /\ ipaCall.frame % 3 = 0 =>
              exposure_ = clamp((ipaCall.exposure * ipaCall.gain)
                                    \div (2 * minGain_),
                                minExposure_, maxExposure_)
        /\ exposure_ <= ipaCall.exposure
        /\ ipaCall.exposure = minExposure_ => exposure_ = minExposure_
        /\ \A i \in Emitted("ActionMetadata") : ipaActions[i].AeLocked = "false"
        /\ Emitted("ActionMetadata") # {}

\* A mean of 120 met at exposure 3 on the cadence: the exposure went down to 1
C19_Witness ==
    /\ AeMeasured
    /\ CellMean(ipaCall.stats.exp_mean) = 120
    /\ ipaCall.frame % 3 = 0
    /\ ipaCall.exposure = 3
    /\ exposure_ = 1
    /\ ipaActions[Len(ipaActions)].AeLocked = "false"

\* The settings within the stored ranges at which the scene measures a mean
\* within the tolerance of the target
TargetSettings ==
    { eg \in (minExposure_..maxExposure_) \X (minGain_..maxGain_) :
        converged(SceneMean(scene, eg[1], eg[2], minGain_)) }

\* The engine reports the converged state
ConvergedReported ==
    \E i \in Emitted("ActionMetadata") : ipaActions[i].AeLocked = "true"

\* C20: under a scene whose measured mean follows the applied exposure and
\* gain and whose target is met by some exposure and gain within the ranges,
\* repeated statistics events eventually lead the engine to report the
\* converged state in a metadata-ready action
C20_EventuallyConverged ==
    (ipaState = "configured" /\ mapped(TheBuffer) /\ scene # 0
         /\ TargetSettings # {})
        ~> ConvergedReported

\* The last operation was a configure() that returned
ConfigureCalled == ipaCall.op = "configure"

\* C21: configure fails with -EINVAL when no control map is supplied, when the
\* exposure control is absent or when the gain control is absent; it returns
\* 0 only when both are present, and then exposure and gain start at their
\* minimum values
C21_ConfigureValidates ==
    ConfigureCalled =>
        LET ec == ipaCall.entityControls
        IN /\ DOMAIN ec = {} => ipaCall.ret = -EINVAL
           /\ (0 \in DOMAIN ec /\ "EXPOSURE" \notin DOMAIN ec[0])
                  => ipaCall.ret = -EINVAL
           /\ (0 \in DOMAIN ec /\ "ANALOGUE_GAIN" \notin DOMAIN ec[0])
                  => ipaCall.ret = -EINVAL
           /\ ipaCall.ret = 0 =>
                  /\ 0 \in DOMAIN ec
                  /\ { "EXPOSURE", "ANALOGUE_GAIN" } \subseteq DOMAIN ec[0]
                  /\ minExposure_ = atLeastOne(ec[0]["EXPOSURE"].min)
                  /\ minGain_ = atLeastOne(ec[0]["ANALOGUE_GAIN"].min)
                  /\ exposure_ = minExposure_
                  /\ gain_ = minGain_

\* configure() succeeded on a sensor whose ranges do not start at their top
C21_Witness ==
    /\ ConfigureCalled
    /\ ipaCall.ret = 0
    /\ exposure_ = minExposure_
    /\ exposure_ < maxExposure_
    /\ gain_ = minGain_
    /\ gain_ < maxGain_

\* configure() failed for want of the gain control
C21_WitnessMissing ==
    /\ ConfigureCalled
    /\ ipaCall.ret = -EINVAL
    /\ DOMAIN ipaCall.entityControls = { 0 }
    /\ DOMAIN ipaCall.entityControls[0] = { "EXPOSURE" }

\* The live mappings made for buffer id
MappingsOf(id) == { m \in mmaps : m.id = id }

\* C22: each buffer id is mapped once: a second mapBuffers for an id that is
\* still mapped creates no second mapping, and after unmapBuffers no mapping
\* of an id it named remains live
C22_MappedOnce ==
    /\ \A id \in BufferIds : Cardinality(MappingsOf(id)) <= 1
    /\ ipaCall.op = "unmapBuffers" =>
          \A i \in DOMAIN ipaCall.ids : MappingsOf(ipaCall.ids[i]) = {}

\* C22, the part about removal: a mapping goes away only in an unmapBuffers
\* call that names its id
C22_RemovedOnlyByUnmap ==
    [][\A m \in mmaps \ mmaps' :
          /\ ipaCall'.op = "unmapBuffers"
          /\ \E i \in DOMAIN ipaCall'.ids : ipaCall'.ids[i] = m.id]_vars

\* remove() took the record id out of the tracker and gave its buffers back
Removed(id) ==
    /\ id \in DOMAIN frameInfo_
    /\ frameInfo_' = Restrict(frameInfo_, DOMAIN frameInfo_ \ { id })
    /\ availableParamBuffers_' =
           Append(availableParamBuffers_, frameInfo_[id].paramBuffer)
    /\ availableStatBuffers_' =
           Append(availableStatBuffers_, frameInfo_[id].statBuffer)

\* C23: removeFrame either removes a record the tracker holds, or finds the
\* record already removed and reports a LogicError; it then returns no buffer
\* to the pools a second time and leaves the lookup indexes alone
C23_DoubleRemoveDetected ==
    [][lastResult'.op = "remove" =>
          \/ /\ lastResult'.result = "Ok"
             /\ \E id \in DOMAIN frameInfo_ : Removed(id)
          \/ /\ lastResult'.result = "LogicError"
             /\ UNCHANGED << availableParamBuffers_, availableStatBuffers_,
                             frameInfo_ >>]_vars

\* The only frame was removed, a second removal was refused, and each pool
\* holds each of its handles once
C23_Witness ==
    /\ lastResult = Outcome("remove", "LogicError")
    /\ issued # {}
    /\ DOMAIN frameInfo_ = {}
    /\ Len(availableParamBuffers_) = Cardinality(seeded[1])
    /\ Len(availableStatBuffers_) = Cardinality(seeded[2])
    /\ seeded[1] # {}

\* Handle h is borrowed by a frame record
Borrowed(h) ==
    \E i \in DOMAIN frameInfo_ :
        frameInfo_[i].paramBuffer = h \/ frameInfo_[i].statBuffer = h

\* C24: tryComplete has no side effect: whatever it returns, a call leaves
\* the pools, the frame records with their flags and the lookup indexes as
\* they were; a borrowed buffer gets back to its pool only in a removal
C24_TryCompleteHasNoEffect ==
    [][/\ lastResult'.op = "tryComplete" =>
            /\ UNCHANGED << availableParamBuffers_, availableStatBuffers_,
                            frameInfo_, rawDone, reqStatus >>
            /\ lastTry'.id \in DOMAIN frameInfo_
       /\ \A h \in seeded[1] \cup seeded[2] :
            (Borrowed(h) /\ h \in Range(availableParamBuffers_')
                                   \cup Range(availableStatBuffers_'))
                => lastResult' \in { Outcome("remove", "Ok"),
                                     Outcome("event", "Finalized") }]_vars

\* tryComplete returned true for a record that is still tracked, its buffers
\* still borrowed
C24_Witness ==
    /\ lastResult = Outcome("tryComplete", "Ok")
    /\ lastTry.ret
    /\ lastTry.id \in DOMAIN frameInfo_
    /\ frameInfo_[lastTry.id].paramDequeued
    /\ frameInfo_[lastTry.id].paramBuffer \notin Range(availableParamBuffers_)
    /\ frameInfo_[lastTry.id].statBuffer \notin Range(availableStatBuffers_)

\* Every frame created so far has been completed and no handle is borrowed
Drained ==
    /\ DOMAIN frameInfo_ = {}
    /\ \A info \in issued : reqStatus[info.request] = "Completed"
    /\ \A h \in seeded[1] \cup seeded[2] : ~Borrowed(h)

\* C25: from the start of a stream stop until a fresh initialize every
\* createFrame is rejected and creates nothing; the frames open at the stop
\* get completed, normally or with an error, and then no frame borrows a
\* buffer handle
C25_StopDrains ==
    /\ [][(stop_ # "no" /\ lastResult'.op = "create") =>
             /\ lastResult'.result # "Ok"
             /\ UNCHANGED << frameInfo_, availableParamBuffers_,
                             availableStatBuffers_, nextId, issued >>]_vars
    /\ [][(stop_ # "no" /\ frameInfo_' # frameInfo_) =>
             DOMAIN frameInfo_' \subseteq DOMAIN frameInfo_]_vars
    /\ [][(stop_ # "no" /\ stop_' = "no") => lastResult' = Outcome("init", "Ok")]_vars
    /\ (stop_ = "draining") ~> (stop_ # "draining" /\ Drained)

\* After a stop that met a frame whose raw buffer had completed and cancelled
\* it, a createFrame was refused although the pools are not yet released
C25_Witness ==
    /\ stop_ = "draining"
    /\ lastResult = Outcome("create", "ConfigurationError")
    /\ availableParamBuffers_ # << >>
    /\ availableStatBuffers_ # << >>
    /\ DOMAIN frameInfo_ = {}
    /\ \E f \in finalLog : f.error /\ f.request \in rawDone

\* C26: once configure has succeeded, whatever events follow, the exposure
\* stays within [minExposure, maxExposure] and the gain within
\* [minGain, maxGain], and every controls-to-apply action carries values
\* within these ranges
C26_SettingsWithinRanges ==
    ipaState # "constructed" =>
        /\ exposure_ \in minExposure_..maxExposure_
        /\ gain_ \in minGain_..maxGain_
        /\ \A i \in Emitted("ActionV4L2Set") :
              /\ ipaActions[i].exposure \in minExposure_..maxExposure_
              /\ ipaActions[i].gain \in minGain_..maxGain_

\* A dark frame met the exposure at the top of its range: exposure and gain
\* were held at their maxima and sent to the sensor
C26_Witness ==
    /\ AeMeasured
    /\ onCadence(ipaCall.frame)
    /\ CellMean(ipaCall.stats.exp_mean) = AeFloor + 1
    /\ ipaCall.exposure = maxExposure_
    /\ exposure_ = maxExposure_
    /\ gain_ = maxGain_
    /\ \E i \in Emitted("ActionV4L2Set") :
          /\ ipaActions[i].exposure = maxExposure_
          /\ ipaActions[i].gain = maxGain_

\* The list passes the validation loop of setControls(): every id is one of
\* the device's controls, and a byte control comes with an array
ValidList(ctrls) ==
    \A i \in 1..Len(ctrls) :
        /\ ctrls[i].id \in DOMAIN controls_
        /\ controls_[ctrls[i].id].type = "Byte" => ctrls[i].value.arr

\* Entry e of a batch carries the value of list entry c
Carries(e, c, j) ==
    /\ e.id = c.id
    /\ CASE controls_[c.id].type = "Integer64" -> e.value64 = c.value.v
         [] controls_[c.id].type = "Byte" -> e.p_u8 = j
         [] OTHER -> e.value = c.value.v

\* C27: setControls on a non-empty list of valid controls issues exactly one
\* batched set request whose entry i is entry i of the list; on an empty list
\* it issues no request and returns 0
C27_OneBatchInListOrder ==
    v4l2Call.op = "setControls" =>
        LET before == v4l2Call.before
        IN /\ before = << >> => (v4l2Io = << >> /\ v4l2Call.ret = 0)
           /\ (before # << >> /\ ValidList(before)) =>
                 /\ Len(v4l2Io) = 1
                 /\ v4l2Io[1].request = "VIDIOC_S_EXT_CTRLS"
                 /\ Len(v4l2Io[1].sent) = Len(before)
                 /\ \A i \in 1..Len(before) :
                       Carries(v4l2Io[1].sent[i], before[i], i)

\* A list of three controls of three types, not in the order of their ids,
\* was written in one batch that the device accepted
C27_Witness ==
    /\ SetReachedDevice
    /\ v4l2Call.ret = 0
    /\ Len(v4l2Call.before) = 3
    /\ v4l2Call.before[1].id > v4l2Call.before[2].id
    /\ { controls_[v4l2Call.before[i].id].type : i \in 1..3 }
           = { "Integer32", "Integer64", "Byte" }
    /\ \A i \in 1..3 : v4l2Io[1].sent[i].id = v4l2Call.before[i].id


(***************************************************************************)
(* C28: open() and setFd() on a device that is already open return -EBUSY  *)
(* and leave the file descriptor and the notifier as they were; after      *)
(* close() the file descriptor is -1; close() on a device that is not open *)
(* changes nothing of the device.                                          *)
(***************************************************************************)
C28_OpenOnceCloseResets ==
    [][ /\ (fd_ # -1 /\ v4l2Call'.op \in { "open", "setFd" })
            => /\ v4l2Call'.ret = -EBUSY
               /\ UNCHANGED << fd_, fdEventNotifier_ >>
        /\ v4l2Call'.op = "close"
            => /\ fd_' = -1
               /\ fd_ = -1
                    => UNCHANGED << fd_, fdEventNotifier_, eventVars,
                                    controls_, controlInfo_ >> ]_vars

\* open() was refused on an open device
C28_Witness ==
    /\ v4l2Call.op \in { "open", "setFd" }
    /\ v4l2Call.ret = -EBUSY
    /\ fd_ # -1
    /\ fdEventNotifier_ = "enabled"

\* close() ran on a device that had been closed before
C28_WitnessClosed ==
    /\ v4l2Call.op = "close"
    /\ fd_ = -1
    /\ fdEventNotifier_ = "null"


(***************************************************************************)
(* C29: every statistics-buffer-ready event for frame f, whatever the      *)
(* statistics buffer holds (every brightness sample at or below the noise  *)
(* floor, or no auto-exposure measurement), makes the engine emit exactly  *)
(* one metadata-ready action for f; every parameter-buffer-needed event    *)
(* exactly one parameters-filled action for f; an unknown event no action. *)
(***************************************************************************)
EmittedFor(op, frame) ==
    { i \in Emitted(op) : ipaActions[i].frame = frame }

C29_OneActionPerEvent ==
    /\ ipaCall.op = "EventSignalStatBuffer"
        => Cardinality(EmittedFor("ActionMetadata", ipaCall.frame)) = 1
    /\ ipaCall.op = "EventQueueRequest"
        => Cardinality(EmittedFor("ActionParamFilled", ipaCall.frame)) = 1
    /\ ipaCall.op = "EventUnknown" => ipaActions = << >>

\* A statistics buffer with every sample at or below the floor stopped the
\* engine in the division, on a buffer the engine has mapped
C29_NoMetadataAfterTrap ==
    /\ ipaCall.op = "EventSignalStatBuffer"
    /\ mapped(ipaCall.bufferId)
    /\ ipaCall.stats.autoexp
    /\ retained(ipaCall.stats.exp_mean) = << >>
    /\ ipaState = "dead"
    /\ ipaActions = << >>

(***************************************************************************)
(* C30: after any sequence of open/setFd, setFrameStartEnabled,            *)
(* eventAvailable and close, the frame-start-enabled flag is true only if  *)
(* the event notifier is enabled, and setFrameStartEnabled(true) returning *)
(* 0 implies that frame-start events are subscribed and the notifier is    *)
(* enabled.                                                                *)
(***************************************************************************)
C30_FlagMeansDelivery ==
    /\ frameStartEnabled_ => fdEventNotifier_ = "enabled"
    /\ (/\ v4l2Call.op = "setFrameStartEnabled"
        /\ v4l2Call.enable
        /\ v4l2Call.ret = 0)
            => (subscribed /\ fdEventNotifier_ = "enabled")

\* The flag is set on a device whose notifier eventAvailable() disabled
C30_FlagWithoutNotifier ==
    /\ frameStartEnabled_
    /\ fdEventNotifier_ = "disabled"
    /\ v4l2Call.op = "eventAvailable"

\* setFrameStartEnabled(true) returned 0 on a reopened device without
\* subscribing
C30_EnabledWithoutSubscription ==
    /\ v4l2Call.op = "setFrameStartEnabled"
    /\ v4l2Call.enable
    /\ v4l2Call.ret = 0
    /\ fd_ # -1
    /\ ~subscribed
    /\ fdEventNotifier_ = "disabled"


(***************************************************************************)
(* C31: setFrameStartEnabled(v) with the flag already v returns 0 without  *)
(* any device request; setFrameStartEnabled(true) whose subscription fails *)
(* returns the error and leaves the flag and the notifier as they were;    *)
(* setFrameStartEnabled(false) always ends with the flag false and the     *)
(* notifier not enabled, even when the unsubscribe request fails.          *)
(***************************************************************************)
\* The step is a call of setFrameStartEnabled(v), returned or not
FrameStartCalled(v) ==
    /\ v4l2Call'.op \in { "setFrameStartEnabled", "trap" }
    /\ v4l2Call'.enable = v

\* The first two cases of C31
C31_NoRequestOrErrorReturned ==
    [][ \A v \in BOOLEAN :
            FrameStartCalled(v) =>
                /\ frameStartEnabled_ = v
                    => /\ v4l2Call'.op = "setFrameStartEnabled"
                       /\ v4l2Call'.ret = 0
                       /\ v4l2Io' = << >>
                       /\ UNCHANGED << fdEventNotifier_, eventVars >>
                /\ (v /\ ~frameStartEnabled_ /\ v4l2Io'[1].answer # 0)
                    => /\ v4l2Call'.op = "setFrameStartEnabled"
                       /\ v4l2Call'.ret = -v4l2Io'[1].answer
                       /\ UNCHANGED << fdEventNotifier_, frameStartEnabled_ >>
      ]_vars

\* The third case of C31
C31_DisableAlwaysDisables ==
    [][ FrameStartCalled(FALSE)
            => /\ v4l2Call'.op = "setFrameStartEnabled"
               /\ frameStartEnabled_' = FALSE
               /\ fdEventNotifier_' # "enabled" ]_vars

\* C31 as stated
C31_FrameStartCases ==
    C31_NoRequestOrErrorReturned /\ C31_DisableAlwaysDisables

\* setFrameStartEnabled(false) on a closed device whose flag is still set
\* stopped in the call through the deleted notifier
C31_DisableAfterClose ==
    /\ v4l2Call.op = "trap"
    /\ ~v4l2Call.enable
    /\ frameStartEnabled_
    /\ fdEventNotifier_ = "deleted"

\* On a device whose notifier exists, a failed unsubscribe still clears the
\* flag and disables the notifier
C31_DisableOnOpenDevice ==
    [][ (FrameStartCalled(FALSE) /\ fdEventNotifier_ \in { "disabled", "enabled" })
            => /\ v4l2Call'.op = "setFrameStartEnabled"
               /\ frameStartEnabled_' = FALSE
               /\ fdEventNotifier_' = "disabled" ]_vars


(***************************************************************************)
(* C32: eventAvailable emits frameStart exactly once, with the dequeued    *)
(* frame sequence, if and only if the dequeue succeeds and the event is a  *)
(* frame-sync event; otherwise it emits nothing and disables the notifier. *)
(***************************************************************************)
C32_FrameStartOncePerFrameSync ==
    v4l2Call.op = "eventAvailable" =>
        IF v4l2Io[1].answer = "V4L2_EVENT_FRAME_SYNC"
        THEN v4l2Call.frameStart = << v4l2Io[1].frame_sequence >>
        ELSE /\ v4l2Call.frameStart = << >>
             /\ fdEventNotifier_ = "disabled"

\* An event of another type was dequeued and the notifier disabled
C32_Witness ==
    /\ v4l2Call.op = "eventAvailable"
    /\ v4l2Io[1].answer = "V4L2_EVENT_CTRL"
    /\ v4l2Call.frameStart = << >>
    /\ fdEventNotifier_ = "disabled"

\* A frame-sync event was signalled with its sequence
C32_WitnessSignalled ==
    /\ v4l2Call.op = "eventAvailable"
    /\ v4l2Io[1].answer = "V4L2_EVENT_FRAME_SYNC"
    /\ v4l2Call.frameStart = << MaxFrames >>


(***************************************************************************)
(* C33: for every getControls call whose ids are all known to the device,  *)
(* an id appearing more than once included, the batch sent to the device   *)
(* has exactly one entry per distinct requested id and no entry whose id   *)
(* was not requested, and every entry of the returned list is a requested  *)
(* id.                                                                     *)
(***************************************************************************)
RequestedIds == { v4l2Call.ids[i] : i \in 1..Len(v4l2Call.ids) }

C33_OneEntryPerDistinctId ==
    (/\ v4l2Call.op = "getControls"
     /\ RequestedIds # {}
     /\ RequestedIds \subseteq DOMAIN controls_)
        => /\ v4l2Io # << >> =>
                LET sent == v4l2Io[1].sent
                IN /\ Len(sent) = Cardinality(RequestedIds)
                   /\ { sent[i].id : i \in 1..Len(sent) } = RequestedIds
           /\ \A j \in 1..Len(v4l2Call.ret) :
                v4l2Call.ret[j].id \in RequestedIds

\* A call naming a known id twice sent a batch whose last entry names no
\* control
C33_ZeroedEntrySent ==
    /\ v4l2Call.op = "getControls"
    /\ RequestedIds \subseteq DOMAIN controls_
    /\ Cardinality(RequestedIds) < Len(v4l2Call.ids)
    /\ v4l2Io # << >>
    /\ Len(v4l2Io[1].sent) = Len(v4l2Call.ids)
    /\ v4l2Io[1].sent[Len(v4l2Call.ids)].id = 0


(***************************************************************************)
(* C34: start acquires in the order import buffers, start IPA, stream on;  *)
(* when a step fails start returns that error and what the earlier steps   *)
(* acquired is released, so that after a failed start no buffers are       *)
(* imported and the IPA is not running; stop() releases in the order       *)
(* stream off, IPA stop, release buffers.                                  *)
(***************************************************************************)
Acquired(steps) ==
    SelectSeq(steps, LAMBDA step :
                        step \in { "importBuffers", "ipa start", "streamOn" })

Released(steps) ==
    SelectSeq(steps, LAMBDA step :
                        step \in { "streamOff", "ipa stop", "releaseBuffers" })

NothingHeld == ~vimcDev.imported /\ ~vimcDev.ipaRunning /\ ~vimcDev.streaming

C34_StartRollsBack ==
    /\ vimcCall.op = "start" =>
        LET acquired == Acquired(vimcCall.steps)
            released == Released(vimcCall.steps)
        IN /\ vimcCall.steps = acquired \o released
           /\ acquired = SubSeq(<< "importBuffers", "ipa start", "streamOn" >>,
                                1, Len(acquired))
           /\ vimcCall.ret = 0 =>
                /\ Len(acquired) = 3 /\ released = << >>
                /\ vimcDev.imported /\ vimcDev.ipaRunning /\ vimcDev.streaming
           /\ vimcCall.ret # 0 =>
                /\ vimcCall.ret = vimcCall.answers[Len(acquired)]
                /\ released = CASE Len(acquired) = 1 -> << >>
                                [] Len(acquired) = 2 -> << "releaseBuffers" >>
                                [] OTHER -> << "ipa stop", "releaseBuffers" >>
                /\ NothingHeld
    /\ vimcCall.op = "stop" =>
        /\ vimcCall.steps = << "streamOff", "ipa stop", "releaseBuffers" >>
        /\ NothingHeld

\* The stream did not start: the IPA was stopped and the buffers released
C34_Witness ==
    /\ vimcCall.op = "start"
    /\ vimcCall.ret = -EINVAL
    /\ vimcCall.steps = << "importBuffers", "ipa start", "streamOn",
                           "ipa stop", "releaseBuffers" >>
    /\ NothingHeld

(***************************************************************************)
(* C35: queueRequestDevice queues the request's buffer to the capture      *)
(* device only after the request's controls were applied with result 0; a  *)
(* request without a buffer for the stream returns -ENOENT with no control *)
(* written and no buffer queued; any non-zero result of the control write, *)
(* a positive first-failing index included, is returned as a negative      *)
(* error with no buffer queued.                                            *)
(***************************************************************************)
BufferQueued ==
    /\ vimcCall.steps # << >>
    /\ vimcCall.steps[Len(vimcCall.steps)] = "queueBuffer"

C35_QueuedOnlyAfterControls ==
    vimcCall.op = "queueRequestDevice" =>
        /\ BufferQueued =>
            /\ vimcCall.steps = << "setControls", "queueBuffer" >>
            /\ vimcCall.setControls = 0
        /\ ~BufferQueued => vimcCall.request \notin vimcQueued
        /\ ~vimcCall.hasBuffer =>
            /\ vimcCall.ret = -ENOENT
            /\ vimcCall.steps = << >>
            /\ vimcCall.written = 0
        /\ (vimcCall.hasBuffer /\ vimcCall.setControls # 0) =>
            /\ vimcCall.ret < 0
            /\ ~BufferQueued

\* The sensor failed the second control of the list: the positive index
\* became -EINVAL and no buffer was queued
C35_Witness ==
    /\ vimcCall.op = "queueRequestDevice"
    /\ vimcCall.hasBuffer
    /\ vimcCall.setControls > 0
    /\ vimcCall.ret = -EINVAL
    /\ vimcQueued = {}

\* A buffer was queued after the controls were written
C35_WitnessQueued ==
    /\ vimcCall.op = "queueRequestDevice"
    /\ BufferQueued
    /\ vimcCall.written = 1
    /\ vimcCall.request \in vimcQueued


(***************************************************************************)
(* C36: a configure call of the engine that fails leaves the engine's      *)
(* state as it was before the call: the stored control capability map, the *)
(* auto-exposure flag, and the exposure and gain values and ranges are     *)
(* unchanged.                                                              *)
(***************************************************************************)
C36_FailedConfigureChangesNothing ==
    [][ (ipaCall'.op = "configure" /\ ipaCall'.ret # 0)
            => UNCHANGED << ctrls_, autoExposure_, exposure_, gain_,
                            minExposure_, maxExposure_, minGain_, maxGain_ >>
      ]_vars

\* A configured engine was configured again with a map lacking a control:
\* the call failed and the engine holds the new map with the old ranges
C36_MapReplacedByFailedConfigure ==
    /\ ipaCall.op = "configure"
    /\ ipaCall.ret = -EINVAL
    /\ ipaState = "configured"
    /\ 0 \in DOMAIN ipaCall.entityControls
    /\ ctrls_ = ipaCall.entityControls[0]
    /\ "ANALOGUE_GAIN" \notin DOMAIN ctrls_


(***************************************************************************)
(* C37: once a parameter-buffer-needed event has carried AeEnable = false, *)
(* statistics events leave the engine's exposure and gain unchanged and    *)
(* emit no controls-to-apply action, until a later parameter-buffer-needed *)
(* event carries AeEnable = true.                                          *)
(***************************************************************************)
C37_DisabledAeHoldsSettings ==
    [][ (ipaCall'.op = "EventSignalStatBuffer" /\ ~autoExposure_)
            => /\ UNCHANGED << exposure_, gain_ >>
               /\ \A i \in 1..Len(ipaActions') :
                      ipaActions'[i].op # "ActionV4L2Set" ]_vars

\* With auto-exposure switched off a statistics event moved the exposure and
\* emitted controls to apply
C37_AdjustedWhileDisabled ==
    /\ ipaCall.op = "EventSignalStatBuffer"
    /\ ~autoExposure_
    /\ retained(ipaCall.stats.exp_mean) # << >>
    /\ ipaCall.exposure # exposure_
    /\ Emitted("ActionV4L2Set") # {}


(***************************************************************************)
(* C38: after any sequence of mapBuffers, unmapBuffers and processEvent    *)
(* calls the engine's buffer table and its mapped-memory table have the    *)
(* same set of buffer ids; in particular a processEvent naming a buffer id *)
(* that was never mapped adds no entry to either table.                    *)
(***************************************************************************)
C38_TablesHaveSameIds == buffers_ = DOMAIN buffersMemory_

\* An event named a buffer id that was never mapped and the process went
\* on: the memory table has an entry, a null pointer, for an id the buffer
\* table lacks
C38_NullEntryAdded ==
    /\ ipaCall.op \in { "EventSignalStatBuffer", "EventQueueRequest" }
    /\ ipaState = "configured"
    /\ mmaps = {}
    /\ buffers_ = {}
    /\ ipaCall.bufferId \in DOMAIN buffersMemory_
    /\ buffersMemory_[ipaCall.bufferId] = NullPtr

====
